---- MODULE Spec2Model ----
(***************************************************************************)
(* X402 facilitator: verification and settlement of pay-per-request        *)
(* payments (closetome-ai/Closetome).                                      *)
(*                                                                         *)
(*  - account-model chain (Solana): SolanaService.verifyPayment,           *)
(*    verifyAtomicPayment, settlePayment, settleAtomicPayment              *)
(*  - authorization-model chain (EVM, EIP-3009): EVMService, BaseService   *)
(*  - client-side intent checker: IntentChecker, signTransaction           *)
(*                                                                         *)
(* Public keys and addresses are strings, instruction data are sequences   *)
(* of bytes, a transaction is a compiled message (message-level signer and *)
(* writable flags plus an ordered instruction list).                       *)
(***************************************************************************)
EXTENDS Integers, Sequences, FiniteSets, TLC

(***************************************************************************)
(* Bounds of the model                                                     *)
(***************************************************************************)
\* number of changes made to a built payment (payload or requirements) before
\* it is settled
MaxEdits == 1
\* the price of the resource, in the smallest unit of the asset
RequiredAmount == 100
\* the clock runs from 1 to MaxTime seconds
MaxTime == 3
\* seconds an authorization built by the client stays valid (maxTimeoutSeconds)
TimeoutSeconds == 1
\* seconds of clock skew the client allows for (validAfter = now - skew)
SkewSeconds == 1
\* a large odd amount whose fee still fits 32 bits at 9999 basis points
LargeOddAmount == 214001
\* the highest fee rate the proxy contract is deployed with, in basis points
MaxFeeBps == 9999

(***************************************************************************)
(* Program constants                                                       *)
(***************************************************************************)
DefaultComputeUnitPrice == 1
DefaultComputeUnitLimit == 40000
MaxComputeUnitLimitAtomic == 1000000
\* config.maxComputeUnitLimitAtomic of the MCP server
ConfigMaxComputeUnitLimitAtomic == 1000000

COMPUTE_BUDGET_PROGRAM_ID == "ComputeBudget111111111111111111111111111111"
TOKEN_PROGRAM_ID == "TokenkegQfeZyiNwAJbNbGKPFXCWuBvf9Ss623VQ5DA"
ASSOCIATED_TOKEN_PROGRAM_ID == "ATokenGPvbdGVxr1b2hvZbsiqW5xWH25efTNsLJA8knL"
SYSTEM_PROGRAM_ID == "11111111111111111111111111111111"
USDC_MINT_MAINNET == "EPjFWdd5AufqSSqeM2qN1xzybapC8G4wEGGkZwyTDt1v"
USDC_MINT_DEVNET == "Gh9ZwEmdLJ8DscKNTkTqPbNwLNNBjuSzaG9Vp2KGtKJr"

(***************************************************************************)
(* Little-endian reads of Buffer                                           *)
(***************************************************************************)
\* Buffer.readUInt32LE(off) is a RangeError when fewer than 4 bytes remain
CanRead(data, off, n) == Len(data) >= off + n

readUInt32LE(data, off) ==
    data[off + 1] + 256 * data[off + 2] + 65536 * data[off + 3]
        + 16777216 * data[off + 4]

\* a u64 is kept as its two 32-bit halves, so that no bit is lost
readBigUInt64LE(data, off) ==
    [lo |-> readUInt32LE(data, off), hi |-> readUInt32LE(data, off + 4)]

\* bigint comparison  amount < BigInt(required)  for required < 2^32
U64Less(amount, required) == amount.hi = 0 /\ amount.lo < required

LE32(n) ==
    << n % 256, (n \div 256) % 256, (n \div 65536) % 256, (n \div 16777216) % 256 >>

(***************************************************************************)
(* Decoding: TransactionMessage.decompile gives every instruction its      *)
(* accounts with the message-level signer / writable flags                 *)
(***************************************************************************)
decompileInstructions(message) ==
    [i \in 1..Len(message.ixs) |->
        [programId |-> message.ixs[i].programId,
         keys |-> [k \in 1..Len(message.ixs[i].accounts) |->
                     [pubkey |-> message.ixs[i].accounts[k],
                      isSigner |-> message.ixs[i].accounts[k] \in message.signers,
                      isWritable |-> message.ixs[i].accounts[k] \in message.writables]],
         data |-> message.ixs[i].data]]

(***************************************************************************)
(* Instruction classifier (SolanaService private helpers)                  *)
(***************************************************************************)
isComputeBudgetInstruction(instruction) ==
    instruction.programId = COMPUTE_BUDGET_PROGRAM_ID

isSetComputeUnitLimit(instruction) ==
    /\ isComputeBudgetInstruction(instruction)
    /\ Len(instruction.data) >= 1
    /\ instruction.data[1] = 2

isSetComputeUnitPrice(instruction) ==
    /\ isComputeBudgetInstruction(instruction)
    /\ Len(instruction.data) >= 1
    /\ instruction.data[1] = 3

\* u32 little-endian at offset 1
getComputeUnitLimit(instruction) ==
    IF ~isSetComputeUnitLimit(instruction) THEN 0
    ELSE readUInt32LE(instruction.data, 1)

\* the price is a u64; only the low 32 bits are read
getComputeUnitPrice(instruction) ==
    IF ~isSetComputeUnitPrice(instruction) THEN 0
    ELSE readUInt32LE(instruction.data, 1)

isATACreationInstruction(instruction) ==
    /\ instruction.programId = ASSOCIATED_TOKEN_PROGRAM_ID
    /\ \/ Len(instruction.data) = 0
       \/ /\ Len(instruction.data) = 1
          /\ instruction.data[1] \in {0, 1}

NoDetails == [none |-> TRUE]

parseATACreationInstruction(instruction) ==
    IF ~isATACreationInstruction(instruction) THEN NoDetails
    ELSE IF Len(instruction.keys) < 6 THEN NoDetails
    ELSE [payer |-> instruction.keys[1].pubkey,
          ata |-> instruction.keys[2].pubkey,
          owner |-> instruction.keys[3].pubkey,
          mint |-> instruction.keys[4].pubkey,
          isIdempotent |-> Len(instruction.data) > 0 /\ instruction.data[1] = 1]

isTokenTransferInstruction(instruction) ==
    /\ instruction.programId = TOKEN_PROGRAM_ID
    /\ Len(instruction.data) >= 1
    /\ instruction.data[1] \in {3, 12}

parseUSDCTransferInstruction(instruction) ==
    IF ~isTokenTransferInstruction(instruction) THEN NoDetails
    ELSE IF instruction.data[1] = 3
    THEN IF Len(instruction.data) < 9 THEN NoDetails
         ELSE IF Len(instruction.keys) < 3 THEN NoDetails
         ELSE [source |-> instruction.keys[1].pubkey,
               destination |-> instruction.keys[2].pubkey,
               amount |-> readBigUInt64LE(instruction.data, 1)]
    ELSE IF Len(instruction.data) < 10 THEN NoDetails
         ELSE IF Len(instruction.keys) < 4 THEN NoDetails
         ELSE [source |-> instruction.keys[1].pubkey,
               destination |-> instruction.keys[3].pubkey,
               amount |-> readBigUInt64LE(instruction.data, 1)]

\* getAssociatedTokenAddress(mint, owner): the program-derived address
getAssociatedTokenAddress(mint, owner) == "ata(" \o mint \o "," \o owner \o ")"

(***************************************************************************)
(* Scans over the decoded instruction list                                 *)
(***************************************************************************)
Min(S) == CHOOSE x \in S : \A y \in S : x <= y
Max(S) == CHOOSE x \in S : \A y \in S : x >= y

\* requirements.extra?.field ?? fallback
ExtraOr(requirements, field, fallback) ==
    IF field \in DOMAIN requirements.extra THEN requirements.extra[field] ELSE fallback

\* for (const instruction of instructions) { if (isSetComputeUnitLimit) {...}
\* if (isSetComputeUnitPrice) {...} } : the last instruction of each kind wins;
\* reading a value from data shorter than 5 bytes throws
ComputeBudgetScan(instructions) ==
    LET limits == {i \in 1..Len(instructions) : isSetComputeUnitLimit(instructions[i])}
        prices == {i \in 1..Len(instructions) : isSetComputeUnitPrice(instructions[i])}
    IN  [hasComputeLimit |-> limits # {},
         hasUnitPrice |-> prices # {},
         throws |-> \E i \in limits \cup prices : ~CanRead(instructions[i].data, 1, 4),
         foundUnitLimit |->
            IF limits = {} \/ ~CanRead(instructions[Max(limits)].data, 1, 4) THEN 0
            ELSE getComputeUnitLimit(instructions[Max(limits)]),
         foundUnitPrice |->
            IF prices = {} \/ ~CanRead(instructions[Max(prices)].data, 1, 4) THEN 0
            ELSE getComputeUnitPrice(instructions[Max(prices)])]

\* first ATA creation instruction of the list (loop with break), 0 when none
FirstATACreation(instructions) ==
    LET S == {i \in 1..Len(instructions) : isATACreationInstruction(instructions[i])}
    IN  IF S = {} THEN 0 ELSE Min(S)

\* first token transfer instruction of the list (loop with break), 0 when none
FirstTokenTransfer(instructions) ==
    LET S == {i \in 1..Len(instructions) : isTokenTransferInstruction(instructions[i])}
    IN  IF S = {} THEN 0 ELSE Min(S)

ExpectedUSDCMint(requirements) ==
    IF requirements.network = "solana" THEN USDC_MINT_MAINNET ELSE USDC_MINT_DEVNET

(***************************************************************************)
(* Transfer / ATA validation shared by verifyPayment (Steps 2-3 and the    *)
(* recipient and amount checks) and verifyAtomicPayment (Step 2).          *)
(* existing = accounts for which connection.getAccountInfo is non-null.    *)
(* Returns the console.error text of the failed check, "" when all pass.   *)
(***************************************************************************)
RecipientCheck(transferDetails, requirements) ==
    IF requirements.payTo # ""
       /\ getAssociatedTokenAddress(ExpectedUSDCMint(requirements), requirements.payTo)
            # transferDetails.destination
    THEN "Transfer destination does not match expected recipient ATA"
    ELSE ""

AmountCheck(transferDetails, requirements) ==
    IF requirements.maxAmountRequired # <<>>
       /\ U64Less(transferDetails.amount, requirements.maxAmountRequired[1])
    THEN "Insufficient amount"
    ELSE ""

ATACheck(ataCreationDetails, transferDetails, requirements, existing) ==
    IF ataCreationDetails # NoDetails
    THEN IF requirements.payTo # "" /\ ataCreationDetails.owner # requirements.payTo
         THEN "ATA owner does not match payment recipient"
         ELSE IF ataCreationDetails.ata
                   # getAssociatedTokenAddress(ExpectedUSDCMint(requirements),
                                               ataCreationDetails.owner)
         THEN "ATA address does not match expected derivation"
         ELSE IF ataCreationDetails.ata # transferDetails.destination
         THEN "ATA creation address does not match transfer destination"
         ELSE ""
    ELSE IF transferDetails.destination \notin existing
         THEN "Transfer destination account does not exist and no ATA creation instruction found"
         ELSE ""

TransferAndATAChecks(instructions, requirements, existing) ==
    LET a == FirstATACreation(instructions)
        t == FirstTokenTransfer(instructions)
        ataCreationDetails ==
            IF a = 0 THEN NoDetails ELSE parseATACreationInstruction(instructions[a])
        transferDetails ==
            IF t = 0 THEN NoDetails ELSE parseUSDCTransferInstruction(instructions[t])
    IN  IF transferDetails = NoDetails THEN "No token transfer instruction found"
        ELSE IF ATACheck(ataCreationDetails, transferDetails, requirements, existing) # ""
        THEN ATACheck(ataCreationDetails, transferDetails, requirements, existing)
        ELSE IF RecipientCheck(transferDetails, requirements) # ""
        THEN RecipientCheck(transferDetails, requirements)
        ELSE AmountCheck(transferDetails, requirements)

(***************************************************************************)
(* Callback instructions                                                   *)
(***************************************************************************)
\* a SerializedInstruction carries its data base64-encoded
ToBase64(bytes) == [base64 |-> bytes]
FromBase64(str) == str.base64

serializeInstruction(instruction) ==
    [programId |-> instruction.programId,
     keys |-> instruction.keys,
     data |-> ToBase64(instruction.data)]

deserializeCallbackInstructions(serializedInstructions) ==
    [i \in 1..Len(serializedInstructions) |->
        [programId |-> serializedInstructions[i].programId,
         keys |-> serializedInstructions[i].keys,
         data |-> FromBase64(serializedInstructions[i].data)]]

\* the comparison without any look at isWritable
instructionsEqualIgnoringWritable(ix1, ix2) ==
    /\ ix1.programId = ix2.programId
    /\ Len(ix1.keys) = Len(ix2.keys)
    /\ Len(ix1.data) = Len(ix2.data)
    /\ \A i \in 1..Len(ix1.keys) :
          /\ ix1.keys[i].pubkey = ix2.keys[i].pubkey
          /\ ix1.keys[i].isSigner = ix2.keys[i].isSigner
    /\ ix1.data = ix2.data

\* isWritable is only compared when both accounts are non-signers
instructionsEqual(ix1, ix2) ==
    /\ ix1.programId = ix2.programId
    /\ Len(ix1.keys) = Len(ix2.keys)
    /\ Len(ix1.data) = Len(ix2.data)
    /\ \A i \in 1..Len(ix1.keys) :
          /\ ix1.keys[i].pubkey = ix2.keys[i].pubkey
          /\ ix1.keys[i].isSigner = ix2.keys[i].isSigner
          /\ (~ix1.keys[i].isSigner /\ ~ix2.keys[i].isSigner)
                => ix1.keys[i].isWritable = ix2.keys[i].isWritable
    /\ ix1.data = ix2.data

(***************************************************************************)
(* verifyAtomicPayment, step by step.  Every step returns the text of the  *)
(* console.error it stops with, "" when it passes.                         *)
(***************************************************************************)

\* Step 1 with the ceiling read from the requirements' extra map
AtomicComputeBudgetCheckFromRequirements(instructions, requirements) ==
    LET requiredUnitPrice ==
            ExtraOr(requirements, "computeUnitPrice", DefaultComputeUnitPrice)
        maxAllowedLimit ==
            ExtraOr(requirements, "maxComputeUnitLimitAtomic", MaxComputeUnitLimitAtomic)
        scan == ComputeBudgetScan(instructions)
    IN  IF scan.throws THEN "Error verifying atomic Solana payment"
        ELSE IF ~scan.hasComputeLimit \/ ~scan.hasUnitPrice
        THEN "Missing compute budget instructions"
        ELSE IF requiredUnitPrice > 0 /\ scan.foundUnitPrice # requiredUnitPrice
        THEN "Incorrect unit price"
        ELSE IF scan.foundUnitLimit > maxAllowedLimit
        THEN "Compute unit limit exceeds maximum allowed for atomic transactions"
        ELSE ""

\* Step 1: both compute budget instructions, the price, the ceiling
AtomicComputeBudgetCheck(instructions, requirements) ==
    LET requiredUnitPrice ==
            ExtraOr(requirements, "computeUnitPrice", DefaultComputeUnitPrice)
        maxAllowedLimit == MaxComputeUnitLimitAtomic
        scan == ComputeBudgetScan(instructions)
    IN  IF scan.throws THEN "Error verifying atomic Solana payment"
        ELSE IF ~scan.hasComputeLimit \/ ~scan.hasUnitPrice
        THEN "Missing compute budget instructions"
        ELSE IF requiredUnitPrice > 0 /\ scan.foundUnitPrice # requiredUnitPrice
        THEN "Incorrect unit price"
        ELSE IF scan.foundUnitLimit > maxAllowedLimit
        THEN "Compute unit limit exceeds maximum allowed for atomic transactions"
        ELSE ""

\* Step 3: every callback instruction is found somewhere in the transaction
CallbacksPresentCheck(instructions, requirements) ==
    IF "callbackInstructions" \notin DOMAIN requirements.extra
    THEN "No callback instructions in requirements"
    ELSE LET callbackInstructions ==
                deserializeCallbackInstructions(requirements.extra.callbackInstructions)
         IN  IF \A c \in 1..Len(callbackInstructions) :
                   \E i \in 1..Len(instructions) :
                       instructionsEqual(callbackInstructions[c], instructions[i])
             THEN ""
             ELSE "Missing callback instruction"

\* Step 4, the while loop: index of the first instruction that is not of the
\* compute budget program (Len + 1 when there is none)
ComputeBudgetPrefixEnd(instructions) ==
    LET S == {i \in 1..Len(instructions) : ~isComputeBudgetInstruction(instructions[i])}
    IN  IF S = {} THEN Len(instructions) + 1 ELSE Min(S)

\* Step 4: the positional walk.  [log, currentIndex]; currentIndex is the
\* 1-based index of the first instruction after the payment instructions
StructureCheck(instructions) ==
    LET afterBudget == ComputeBudgetPrefixEnd(instructions)
        prefix == 1..(afterBudget - 1)
        prices == {i \in prefix : isSetComputeUnitPrice(instructions[i])}
        limits == {i \in prefix : isSetComputeUnitLimit(instructions[i])}
        hasATA == afterBudget <= Len(instructions)
                    /\ isATACreationInstruction(instructions[afterBudget])
        afterATA == IF hasATA THEN afterBudget + 1 ELSE afterBudget
        hasTransfer == afterATA <= Len(instructions)
                    /\ isTokenTransferInstruction(instructions[afterATA])
    IN  IF Cardinality(prices) > 1
        THEN [log |-> "Duplicate setComputeUnitPrice instruction", currentIndex |-> 0]
        ELSE IF Cardinality(limits) > 1
        THEN [log |-> "Duplicate setComputeUnitLimit instruction", currentIndex |-> 0]
        ELSE IF prices = {} \/ limits = {}
        THEN [log |-> "Missing required compute budget instructions at the beginning",
              currentIndex |-> 0]
        ELSE IF ~hasTransfer
        THEN [log |-> "Missing required transfer instruction after compute budget",
              currentIndex |-> 0]
        ELSE [log |-> "", currentIndex |-> afterATA + 1]


\* Step 5 comparing the number of remaining instructions only
RemainingCountCheck(instructions, currentIndex, callbackInstructions) ==
    LET remainingInstructions == SubSeq(instructions, currentIndex, Len(instructions))
    IN  IF Len(remainingInstructions) # Len(callbackInstructions)
        THEN "Callback instruction count mismatch"
        ELSE ""

\* Step 5: the remaining instructions equal the callback list, one by one
RemainingMatchCheck(instructions, currentIndex, callbackInstructions) ==
    LET remainingInstructions == SubSeq(instructions, currentIndex, Len(instructions))
    IN  IF Len(remainingInstructions) # Len(callbackInstructions)
        THEN "Callback instruction count mismatch"
        ELSE IF \E i \in 1..Len(remainingInstructions) :
                   ~instructionsEqual(remainingInstructions[i], callbackInstructions[i])
        THEN "Callback instruction mismatch"
        ELSE ""

isSvmPayload(payload) == "transaction" \in DOMAIN payload

Rejected(text) == [isValid |-> FALSE, log |-> text]
Accepted(text) == [isValid |-> TRUE, log |-> text]

verifyAtomicPayment(paymentPayload, requirements, existing) ==
    IF ~isSvmPayload(paymentPayload)
    THEN Rejected("Invalid payment payload: not a Solana transaction")
    ELSE IF ~paymentPayload.transaction.decodable
    THEN Rejected("Error verifying atomic Solana payment")
    ELSE LET instructions == decompileInstructions(paymentPayload.transaction)
             step1 == AtomicComputeBudgetCheck(instructions, requirements)
             step2 == TransferAndATAChecks(instructions, requirements, existing)
             step3 == CallbacksPresentCheck(instructions, requirements)
             step4 == StructureCheck(instructions)
         IN  IF Len(instructions) = 0 THEN Rejected("No instructions found in transaction")
             ELSE IF step1 # "" THEN Rejected(step1)
             ELSE IF step2 # "" THEN Rejected(step2)
             ELSE IF step3 # "" THEN Rejected(step3)
             ELSE IF step4.log # "" THEN Rejected(step4.log)
             ELSE LET step5 == RemainingMatchCheck(instructions, step4.currentIndex,
                                  deserializeCallbackInstructions(
                                      requirements.extra.callbackInstructions))
                  IN  IF step5 # "" THEN Rejected(step5)
                      ELSE Accepted("Atomic payment verification successful")

(***************************************************************************)
(* verifyPayment (non-atomic)                                              *)
(***************************************************************************)
\* Step 1 with the higher limit allowed without bound beside an ATA creation
ComputeBudgetCheckUnboundedLimit(instructions, requirements) ==
    LET requiredUnitPrice ==
            ExtraOr(requirements, "computeUnitPrice", DefaultComputeUnitPrice)
        requiredUnitLimit ==
            ExtraOr(requirements, "computeUnitLimit", DefaultComputeUnitLimit)
        scan == ComputeBudgetScan(instructions)
        hasATACreation ==
            \E i \in 1..Len(instructions) : isATACreationInstruction(instructions[i])
    IN  IF scan.throws THEN "Error verifying Solana payment"
        ELSE IF ~(scan.hasComputeLimit \/ scan.hasUnitPrice) THEN ""
        ELSE IF ~scan.hasComputeLimit \/ ~scan.hasUnitPrice
        THEN "Incomplete compute budget instructions"
        ELSE IF requiredUnitPrice > 0 /\ scan.foundUnitPrice # requiredUnitPrice
        THEN "Incorrect unit price"
        ELSE IF requiredUnitLimit > 0 /\ scan.foundUnitLimit # requiredUnitLimit
                /\ ~hasATACreation
        THEN "Incorrect compute limit"
        ELSE ""

\* Step 1: compute budget instructions are optional, but come as a pair
ComputeBudgetCheck(instructions, requirements) ==
    LET requiredUnitPrice ==
            ExtraOr(requirements, "computeUnitPrice", DefaultComputeUnitPrice)
        requiredUnitLimit ==
            ExtraOr(requirements, "computeUnitLimit", DefaultComputeUnitLimit)
        scan == ComputeBudgetScan(instructions)
        hasATACreation ==
            \E i \in 1..Len(instructions) : isATACreationInstruction(instructions[i])
    IN  IF scan.throws THEN "Error verifying Solana payment"
        ELSE IF ~(scan.hasComputeLimit \/ scan.hasUnitPrice) THEN ""
        ELSE IF ~scan.hasComputeLimit \/ ~scan.hasUnitPrice
        THEN "Incomplete compute budget instructions"
        ELSE IF requiredUnitPrice > 0 /\ scan.foundUnitPrice # requiredUnitPrice
        THEN "Incorrect unit price"
        ELSE IF requiredUnitLimit > 0 /\ scan.foundUnitLimit # requiredUnitLimit
                /\ (~hasATACreation \/ scan.foundUnitLimit > requiredUnitLimit * 2)
        THEN "Incorrect compute limit"
        ELSE ""

verifyPayment(paymentPayload, requirements, existing) ==
    IF ~isSvmPayload(paymentPayload)
    THEN Rejected("Invalid payment payload: not a Solana transaction")
    ELSE IF ~paymentPayload.transaction.decodable
    THEN Rejected("Error verifying Solana payment")
    ELSE LET instructions == decompileInstructions(paymentPayload.transaction)
             step1 == ComputeBudgetCheck(instructions, requirements)
             step2 == TransferAndATAChecks(instructions, requirements, existing)
         IN  IF Len(instructions) = 0 THEN Rejected("No instructions found in transaction")
             ELSE IF step1 # "" THEN Rejected(step1)
             ELSE IF step2 # "" THEN Rejected(step2)
             ELSE Accepted("Payment verification successful")

(***************************************************************************)
(* Building transactions (SDK client, createPaymentTransaction and         *)
(* createSolanaAtomicPaymentTransaction)                                   *)
(***************************************************************************)
UserWallet == "UserWallet"
Recipient == "Recipient"
Attacker == "Attacker"
ServerKey == "ServerKey"
FacilitatorFeePayer == "FacilitatorFeePayer"
\* the fee payer of another facilitator
OtherFeePayer == "OtherFeePayer"
\* a mint that is not the USDC mint of either network
OTHER_MINT == "So11111111111111111111111111111111111111112"
CALLBACK_PROGRAM_ID == "CallbackProgram"

Key(pubkey, isSigner, isWritable) ==
    [pubkey |-> pubkey, isSigner |-> isSigner, isWritable |-> isWritable]

\* ComputeBudgetProgram.setComputeUnitPrice: discriminator 3, u64 microLamports
setComputeUnitPrice(microLamports) ==
    [programId |-> COMPUTE_BUDGET_PROGRAM_ID, keys |-> <<>>,
     data |-> <<3>> \o LE32(microLamports) \o <<0, 0, 0, 0>>]

\* ComputeBudgetProgram.setComputeUnitLimit: discriminator 2, u32 units
setComputeUnitLimit(units) ==
    [programId |-> COMPUTE_BUDGET_PROGRAM_ID, keys |-> <<>>,
     data |-> <<2>> \o LE32(units)]

\* ComputeBudgetProgram.requestHeapFrame: discriminator 1, u32 bytes
requestHeapFrame(bytes) ==
    [programId |-> COMPUTE_BUDGET_PROGRAM_ID, keys |-> <<>>,
     data |-> <<1>> \o LE32(bytes)]

createAssociatedTokenAccountInstruction(payer, ata, owner, mint) ==
    [programId |-> ASSOCIATED_TOKEN_PROGRAM_ID,
     keys |-> << Key(payer, TRUE, TRUE), Key(ata, FALSE, TRUE), Key(owner, FALSE, FALSE),
                 Key(mint, FALSE, FALSE), Key(SYSTEM_PROGRAM_ID, FALSE, FALSE),
                 Key(TOKEN_PROGRAM_ID, FALSE, FALSE) >>,
     data |-> <<>>]

createTransferInstruction(source, destination, owner, amount) ==
    [programId |-> TOKEN_PROGRAM_ID,
     keys |-> << Key(source, FALSE, TRUE), Key(destination, FALSE, TRUE),
                 Key(owner, TRUE, FALSE) >>,
     data |-> <<3>> \o LE32(amount) \o <<0, 0, 0, 0>>]

\* a merchant callback: the server key signs, one account of the merchant is written
CallbackInstruction(tag) ==
    [programId |-> CALLBACK_PROGRAM_ID,
     keys |-> << Key(ServerKey, TRUE, FALSE), Key("MerchantState", FALSE, TRUE) >>,
     data |-> <<tag>>]

\* TransactionMessage.compileToV0Message: an account is a signer (writable) of the
\* message when the fee payer or any instruction marks it so
CompileMessage(payerKey, instructions) ==
    [decodable |-> TRUE,
     payerKey |-> payerKey,
     signers |-> {payerKey} \cup
        {instructions[i].keys[k].pubkey :
            <<i, k>> \in {<<i, k>> \in (1..Len(instructions)) \X (1..6) :
                            k <= Len(instructions[i].keys)
                            /\ instructions[i].keys[k].isSigner}},
     writables |-> {payerKey} \cup
        {instructions[i].keys[k].pubkey :
            <<i, k>> \in {<<i, k>> \in (1..Len(instructions)) \X (1..6) :
                            k <= Len(instructions[i].keys)
                            /\ instructions[i].keys[k].isWritable}},
     ixs |-> [i \in 1..Len(instructions) |->
                [programId |-> instructions[i].programId,
                 accounts |-> [k \in 1..Len(instructions[i].keys) |->
                                 instructions[i].keys[k].pubkey],
                 data |-> instructions[i].data]]]

(***************************************************************************)
(* The facilitator serving one account-model payment                       *)
(***************************************************************************)
VARIABLES
    feePayerPublicKey,  \* SolanaService.feePayerPublicKey, "" when not configured
    phase,              \* "idle", "built", "verified", "changed", "settled"
    paymentPayload,     \* the payload of the request body
    paymentRequirements,\* the requirements of the request body
    existing,           \* accounts that exist on chain (connection.getAccountInfo)
    edits,              \* changes made to the payment since it was built
    verifyResponse,     \* the answer of /verify or /atomic/verify
    settleResponse,     \* the answer of /settle or /atomic/settle
    submitted,          \* what was handed to the chain (sendTransaction, contract calls)
    now,                \* Math.floor(Date.now() / 1000)
    feeBps,             \* proxy.feeBps() of the deployed proxy contract
    facilitatorWallet,  \* EVMService.facilitatorWallet, "" when no key is configured
    intentResult,       \* what transaction_analyze returned
    signResult,         \* what transaction_sign returned, or that it threw
    usdc,               \* the USDC token contract: balances, used authorizations
    callbacks,          \* the calls the proxy contract made to callback targets
    clientResult,       \* what the SDK client's create...PaymentTransaction returned or threw
    mw                  \* the SDK middleware: its one-time fetch and its requests

vars == << feePayerPublicKey, phase, paymentPayload, paymentRequirements, existing,
           edits, verifyResponse, settleResponse, submitted, now, feeBps,
           facilitatorWallet, intentResult, signResult, usdc, callbacks,
           clientResult, mw >>

\* what only the wallet tools of the MCP server write
walletVars == << intentResult, signResult >>

\* what only the authorization-model services read
evmVars == << now, feeBps, facilitatorWallet >>

\* what only the account-model service reads
svmVars == << feePayerPublicKey, existing >>

\* what only contract calls on the authorization-model chain write
sdkVars == << clientResult, mw >>

chainVars == << usdc, callbacks, sdkVars >>

NoResponse == [route |-> "none"]

\* the token contract before anyone holds or has spent anything
NoToken == [balances |-> <<>>, used |-> {}]

\* requirements as the middleware builds them from the route configuration and
\* the facilitator's /supported answer
BaseRequirements(atomic, feePayer) ==
    [scheme |-> "exact",
     network |-> "solana-devnet",
     maxAmountRequired |-> <<RequiredAmount>>,
     payTo |-> Recipient,
     asset |-> USDC_MINT_DEVNET,
     extra |->
        (IF feePayer # "" THEN [feePayer |-> feePayer] ELSE <<>>)
        @@ [computeUnitPrice |-> DefaultComputeUnitPrice,
            computeUnitLimit |-> DefaultComputeUnitLimit,
            maxComputeUnitLimitAtomic |-> MaxComputeUnitLimitAtomic]
        @@ (IF atomic
            THEN [callbackInstructions |->
                    << serializeInstruction(CallbackInstruction(1)),
                       serializeInstruction(CallbackInstruction(2)) >>]
            ELSE <<>>)]

\* createPaymentTransaction / createSolanaAtomicPaymentTransaction
ClientInstructions(requirements, atomic, needsATACreation) ==
    LET usdcMint == requirements.asset
        payerATA == getAssociatedTokenAddress(usdcMint, UserWallet)
        recipientATA == getAssociatedTokenAddress(usdcMint, requirements.payTo)
        feePayer == ExtraOr(requirements, "feePayer", UserWallet)
        computeLimit == ExtraOr(requirements, "computeUnitLimit",
                                IF needsATACreation THEN 40000 ELSE 200000)
        computePrice == ExtraOr(requirements, "computeUnitPrice", IF atomic THEN 1 ELSE 0)
    IN  (IF atomic \/ computePrice > 0 THEN <<setComputeUnitPrice(computePrice)>> ELSE <<>>)
        \o (IF atomic \/ computeLimit > 0 THEN <<setComputeUnitLimit(computeLimit)>> ELSE <<>>)
        \o (IF needsATACreation
            THEN <<createAssociatedTokenAccountInstruction(
                      feePayer, recipientATA, requirements.payTo, usdcMint)>>
            ELSE <<>>)
        \o <<createTransferInstruction(payerATA, recipientATA, UserWallet,
                                       requirements.maxAmountRequired[1])>>
        \o (IF atomic
            THEN deserializeCallbackInstructions(requirements.extra.callbackInstructions)
            ELSE <<>>)

ClientTransaction(requirements, atomic, needsATACreation) ==
    CompileMessage(ExtraOr(requirements, "feePayer", UserWallet),
                   ClientInstructions(requirements, atomic, needsATACreation))

InitSvm ==
    /\ feePayerPublicKey \in {"", FacilitatorFeePayer}
    /\ phase = "idle"
    /\ paymentPayload = [transaction |-> CompileMessage(UserWallet, <<>>)]
    /\ paymentRequirements = BaseRequirements(FALSE, "")
    /\ existing = {}
    /\ edits = 0
    /\ verifyResponse = NoResponse
    /\ settleResponse = NoResponse
    /\ submitted = <<>>
    /\ now = 0
    /\ feeBps = 0
    /\ facilitatorWallet = ""
    /\ intentResult = NoResponse
    /\ signResult = NoResponse
    /\ usdc = NoToken
    /\ callbacks = <<>>
    /\ clientResult = NoResponse
    /\ mw = NoResponse

\* requirements of a merchant who asks for more compute units than the
\* facilitator allows and announces a ceiling of its own
PaddedRequirements(requirements) ==
    [requirements EXCEPT
        !.extra.computeUnitLimit = MaxComputeUnitLimitAtomic + 1,
        !.extra.maxComputeUnitLimitAtomic = 2 * MaxComputeUnitLimitAtomic]

\* requirements of a merchant whose last callback instruction sets the
\* compute unit limit
BudgetedRequirements(requirements) ==
    [requirements EXCEPT
        !.extra.callbackInstructions =
            << serializeInstruction(CallbackInstruction(1)),
               serializeInstruction(setComputeUnitLimit(DefaultComputeUnitLimit)) >>]

\* the client answers a 402 with a payment built for the requirements
CreatePayment ==
    /\ phase = "idle"
    /\ \E atomic \in BOOLEAN, needsATACreation \in BOOLEAN, padded \in BOOLEAN,
          budgeted \in BOOLEAN, asset \in {USDC_MINT_DEVNET, OTHER_MINT} :
          /\ padded => atomic
          /\ budgeted => (atomic /\ ~padded)
          /\ asset # USDC_MINT_DEVNET => ~atomic
          /\ paymentRequirements' =
                IF padded
                THEN PaddedRequirements(BaseRequirements(atomic, feePayerPublicKey))
                ELSE IF budgeted
                THEN BudgetedRequirements(BaseRequirements(atomic, feePayerPublicKey))
                ELSE [BaseRequirements(atomic, feePayerPublicKey) EXCEPT !.asset = asset]
          /\ paymentPayload' =
                [transaction |-> ClientTransaction(paymentRequirements', atomic,
                                                   needsATACreation)]
          /\ existing' =
                IF needsATACreation THEN {}
                ELSE {getAssociatedTokenAddress(asset, Recipient)}
    /\ phase' = "built"
    /\ UNCHANGED << chainVars, walletVars, evmVars, feePayerPublicKey, edits, verifyResponse, settleResponse, submitted >>

(***************************************************************************)
(* Changes to a built payment before it reaches the facilitator: the payer *)
(* or the merchant sends something else than the client built              *)
(***************************************************************************)
InsertAt(seq, pos, x) == SubSeq(seq, 1, pos - 1) \o <<x>> \o SubSeq(seq, pos, Len(seq))
DeleteAt(seq, pos) == SubSeq(seq, 1, pos - 1) \o SubSeq(seq, pos + 1, Len(seq))
ReplaceAt(seq, pos, x) == [seq EXCEPT ![pos] = x]
SwapAt(seq, pos) == [seq EXCEPT ![pos] = seq[pos + 1], ![pos + 1] = seq[pos]]

\* instructions someone may add to the transaction
InsertedInstructions ==
    { requestHeapFrame(32768),
      setComputeUnitPrice(DefaultComputeUnitPrice),
      setComputeUnitLimit(MaxComputeUnitLimitAtomic + 1),
      CallbackInstruction(3),
      createAssociatedTokenAccountInstruction(
            UserWallet, getAssociatedTokenAddress(USDC_MINT_DEVNET, Attacker),
            Attacker, USDC_MINT_DEVNET),
      createTransferInstruction(getAssociatedTokenAddress(USDC_MINT_DEVNET, UserWallet),
                                getAssociatedTokenAddress(USDC_MINT_DEVNET, Attacker),
                                UserWallet, RequiredAmount) }

\* a callback instruction with one thing changed: a flag, an account, the data,
\* the program, the number of accounts
CallbackVariants(instruction) ==
    { [instruction EXCEPT !.keys[1].isWritable = ~@],
      [instruction EXCEPT !.keys[2].isWritable = ~@],
      [instruction EXCEPT !.keys[2].isSigner = ~@],
      [instruction EXCEPT !.keys[2].pubkey = "OtherState"],
      [instruction EXCEPT !.data = <<@[1] + 10>>],
      [instruction EXCEPT !.programId = SYSTEM_PROGRAM_ID],
      [instruction EXCEPT !.keys = SubSeq(@, 1, 1)] }

\* other values for the instruction at one position
TamperedInstructions(instruction) ==
    IF isSetComputeUnitLimit(instruction)
    THEN { setComputeUnitLimit(MaxComputeUnitLimitAtomic),
           setComputeUnitLimit(MaxComputeUnitLimitAtomic + 1),
           setComputeUnitLimit(2 * DefaultComputeUnitLimit),
           setComputeUnitLimit(2 * DefaultComputeUnitLimit + 1) }
    ELSE IF isSetComputeUnitPrice(instruction)
    THEN { setComputeUnitPrice(DefaultComputeUnitPrice + 1),
           [instruction EXCEPT !.data = SubSeq(@, 1, 5) \o <<1, 0, 0, 0>>] }
    ELSE IF instruction.programId = CALLBACK_PROGRAM_ID /\ instruction.data = <<1>>
    THEN CallbackVariants(instruction)
    ELSE IF isTokenTransferInstruction(instruction)
    THEN { createTransferInstruction(instruction.keys[1].pubkey,
                instruction.keys[2].pubkey, UserWallet, RequiredAmount - 1),
           createTransferInstruction(instruction.keys[1].pubkey,
                getAssociatedTokenAddress(USDC_MINT_DEVNET, Attacker),
                UserWallet, RequiredAmount),
           createTransferInstruction(
                getAssociatedTokenAddress(USDC_MINT_DEVNET, FacilitatorFeePayer),
                instruction.keys[2].pubkey, FacilitatorFeePayer, RequiredAmount) }
    ELSE {}

\* the instructions of a client that sets no compute budget
WithoutComputeBudget(instructions) ==
    LET NotComputeBudget(instruction) == ~isComputeBudgetInstruction(instruction)
    IN  SelectSeq(instructions, NotComputeBudget)

EditedInstructions(instructions) ==
    {WithoutComputeBudget(instructions)}
    \cup {InsertAt(instructions, pos, x) :
        <<pos, x>> \in (1..(Len(instructions) + 1)) \X InsertedInstructions}
    \cup {DeleteAt(instructions, pos) : pos \in 1..Len(instructions)}
    \cup {SwapAt(instructions, pos) : pos \in 1..(Len(instructions) - 1)}
    \cup UNION {{ReplaceAt(instructions, pos, x) : x \in TamperedInstructions(instructions[pos])} :
                    pos \in 1..Len(instructions)}

WithExtra(requirements, field, value) ==
    [requirements EXCEPT !.extra =
        [f \in (DOMAIN requirements.extra) \cup {field} |->
            IF f = field THEN value ELSE requirements.extra[f]]]

WithoutExtra(requirements, field) ==
    [requirements EXCEPT !.extra =
        [f \in (DOMAIN requirements.extra) \ {field} |-> requirements.extra[f]]]

\* other callback lists: reordered, shortened, the first callback changed
EditedInstructionLists(serializedInstructions) ==
    {SwapAt(serializedInstructions, pos) : pos \in 1..(Len(serializedInstructions) - 1)}
    \cup {DeleteAt(serializedInstructions, pos) : pos \in 1..Len(serializedInstructions)}
    \cup (IF Len(serializedInstructions) = 0 THEN {}
          ELSE {ReplaceAt(serializedInstructions, 1, serializeInstruction(x)) :
                    x \in CallbackVariants(
                            deserializeCallbackInstructions(serializedInstructions)[1])})

\* other requirements the merchant may send with the same payment
EditedRequirements(requirements) ==
    { [requirements EXCEPT !.asset = OTHER_MINT],
      [requirements EXCEPT !.network = "solana"],
      [requirements EXCEPT !.maxAmountRequired = <<RequiredAmount + 1>>],
      WithoutExtra(requirements, "callbackInstructions"),
      WithoutExtra(requirements, "feePayer"),
      WithExtra(requirements, "feePayer", FacilitatorFeePayer),
      WithExtra(requirements, "feePayer", OtherFeePayer) }
    \cup (IF "callbackInstructions" \in DOMAIN requirements.extra
          THEN {WithExtra(requirements, "callbackInstructions", cbs) :
                    cbs \in EditedInstructionLists(requirements.extra.callbackInstructions)}
          ELSE {})

(* the payload sent differs from the one the client built *)
TamperTransaction ==
    /\ phase \in {"built", "verified", "changed"}
    /\ edits < MaxEdits
    /\ phase' = (IF phase = "built" THEN "built" ELSE "changed")
    /\ paymentPayload.transaction.decodable
    /\ \E instructions \in
            EditedInstructions(decompileInstructions(paymentPayload.transaction)) :
          paymentPayload' =
            [transaction |->
                CompileMessage(paymentPayload.transaction.payerKey, instructions)]
    /\ edits' = edits + 1
    /\ UNCHANGED << chainVars, walletVars, evmVars, feePayerPublicKey, paymentRequirements, existing,
                    verifyResponse, settleResponse, submitted >>

(* the bytes sent are not a serialized transaction *)
CorruptTransaction ==
    /\ phase \in {"built", "verified", "changed"}
    /\ edits < MaxEdits
    /\ phase' = (IF phase = "built" THEN "built" ELSE "changed")
    /\ paymentPayload.transaction.decodable
    /\ paymentPayload' =
            [transaction |-> [paymentPayload.transaction EXCEPT !.decodable = FALSE]]
    /\ edits' = edits + 1
    /\ UNCHANGED << chainVars, walletVars, evmVars, feePayerPublicKey, paymentRequirements, existing,
                    verifyResponse, settleResponse, submitted >>

(* the requirements sent differ from the ones the payment was built for *)
ChangeRequirements ==
    /\ phase \in {"built", "verified", "changed"}
    /\ edits < MaxEdits
    /\ phase' = (IF phase = "built" THEN "built" ELSE "changed")
    /\ \E requirements \in EditedRequirements(paymentRequirements) :
          /\ requirements # paymentRequirements
          /\ paymentRequirements' = requirements
    /\ edits' = edits + 1
    /\ UNCHANGED << chainVars, walletVars, evmVars, feePayerPublicKey, paymentPayload, existing,
                    verifyResponse, settleResponse, submitted >>

(***************************************************************************)
(* Settlement (SolanaService)                                              *)
(***************************************************************************)
\* prepend the configured compute budget instructions the transaction lacks
addComputeBudgetInstructions(transaction) ==
    LET instructions == decompileInstructions(transaction)
        scan == ComputeBudgetScan(instructions)
        newInstructions ==
            (IF ~scan.hasUnitPrice /\ DefaultComputeUnitPrice > 0
             THEN <<setComputeUnitPrice(DefaultComputeUnitPrice)>> ELSE <<>>)
            \o (IF ~scan.hasComputeLimit /\ DefaultComputeUnitLimit > 0
                THEN <<setComputeUnitLimit(DefaultComputeUnitLimit)>> ELSE <<>>)
    IN  IF scan.hasComputeLimit /\ scan.hasUnitPrice THEN transaction
        ELSE IF Len(newInstructions) > 0
        THEN CompileMessage(transaction.payerKey, newInstructions \o instructions)
        ELSE transaction

NoSubmission(text) == [submit |-> FALSE, error |-> text]
Submission(transaction, signed) ==
    [submit |-> TRUE, transaction |-> transaction, signedByFeePayer |-> signed]

\* settlePayment that goes on without a countersignature when the fee payer
\* asked for is not the configured one
settlePaymentWithFallback(payload, requirements, onChain, feePayerKey) ==
    IF ~verifyPayment(payload, requirements, onChain).isValid
    THEN NoSubmission("Payment verification failed")
    ELSE LET transaction == addComputeBudgetInstructions(payload.transaction)
         IN  IF "feePayer" \in DOMAIN requirements.extra
             THEN IF feePayerKey = ""
                  THEN NoSubmission("Fee payer required but not configured on server")
                  ELSE IF requirements.extra.feePayer # feePayerKey
                  THEN Submission(transaction, FALSE)
                  ELSE IF feePayerKey \notin transaction.signers
                  THEN NoSubmission("Cannot sign with non signer key")
                  ELSE Submission(transaction, TRUE)
             ELSE Submission(transaction, FALSE)

\* settlePayment up to connection.sendTransaction: what is submitted, if anything.
\* transaction.sign throws when the key is not a signer of the message
settlePayment(payload, requirements, onChain, feePayerKey) ==
    IF ~verifyPayment(payload, requirements, onChain).isValid
    THEN NoSubmission("Payment verification failed")
    ELSE LET transaction == addComputeBudgetInstructions(payload.transaction)
         IN  IF "feePayer" \in DOMAIN requirements.extra
             THEN IF feePayerKey = ""
                  THEN NoSubmission("Fee payer required but not configured on server")
                  ELSE IF requirements.extra.feePayer # feePayerKey
                  THEN NoSubmission("Fee payer mismatch")
                  ELSE IF feePayerKey \notin transaction.signers
                  THEN NoSubmission("Cannot sign with non signer key")
                  ELSE Submission(transaction, TRUE)
             ELSE Submission(transaction, FALSE)


\* settleAtomicPayment without the verification at its start
settleAtomicPaymentUnverified(payload, requirements, onChain, feePayerKey) ==
    IF ~isSvmPayload(payload) \/ ~payload.transaction.decodable
    THEN NoSubmission("Failed to settle atomic payment")
    ELSE IF feePayerKey # ""
    THEN IF feePayerKey \notin payload.transaction.signers
         THEN NoSubmission("Cannot sign with non signer key")
         ELSE Submission(payload.transaction, TRUE)
    ELSE Submission(payload.transaction, FALSE)

\* settleAtomicPayment up to connection.sendTransaction
settleAtomicPayment(payload, requirements, onChain, feePayerKey) ==
    IF ~verifyAtomicPayment(payload, requirements, onChain).isValid
    THEN NoSubmission("Atomic payment verification failed")
    ELSE IF feePayerKey # ""
    THEN IF feePayerKey \notin payload.transaction.signers
         THEN NoSubmission("Cannot sign with non signer key")
         ELSE Submission(payload.transaction, TRUE)
    ELSE Submission(payload.transaction, FALSE)

\* sendTransaction and confirmTransaction: the chain accepts and confirms, reports
\* an error at confirmation, or refuses the transaction (sendTransaction throws)
ChainOutcomes == {"confirmed", "failed", "refused"}

SettleResponseOf(route, plan, outcome) ==
    IF ~plan.submit THEN [route |-> route, success |-> FALSE, error |-> plan.error]
    ELSE IF outcome = "confirmed"
    THEN [route |-> route, success |-> TRUE, error |-> ""]
    ELSE IF outcome = "failed"
    THEN [route |-> route, success |-> FALSE, error |-> "Transaction failed"]
    ELSE [route |-> route, success |-> FALSE, error |-> "Failed to settle payment"]

(***************************************************************************)
(* The facilitator's routes for the account-model networks                 *)
(***************************************************************************)
(* POST /verify *)
PostVerify ==
    /\ phase = "built"
    /\ verifyResponse' =
            [route |-> "/verify",
             isValid |-> verifyPayment(paymentPayload, paymentRequirements, existing).isValid,
             log |-> verifyPayment(paymentPayload, paymentRequirements, existing).log,
             error |-> ""]
    /\ phase' = "verified"
    /\ UNCHANGED << chainVars, walletVars, evmVars, feePayerPublicKey, paymentPayload, paymentRequirements, existing,
                    edits, settleResponse, submitted >>

\* the route answers 400 itself when the requirements carry no callback list
atomicVerifyRoute(payload, requirements, onChain) ==
    IF "callbackInstructions" \notin DOMAIN requirements.extra
    THEN Rejected("No callback instructions provided for atomic transaction")
    ELSE verifyAtomicPayment(payload, requirements, onChain)

\* the error field of the route's response: the service returns a boolean, so
\* only the route's own 400 carries a text
atomicVerifyRouteError(requirements) ==
    IF "callbackInstructions" \notin DOMAIN requirements.extra
    THEN "No callback instructions provided for atomic transaction"
    ELSE ""

(* POST /atomic/verify *)
PostAtomicVerify ==
    /\ phase = "built"
    /\ verifyResponse' =
            [route |-> "/atomic/verify",
             isValid |-> atomicVerifyRoute(paymentPayload, paymentRequirements, existing).isValid,
             log |-> atomicVerifyRoute(paymentPayload, paymentRequirements, existing).log,
             error |-> atomicVerifyRouteError(paymentRequirements)]
    /\ phase' = "verified"
    /\ UNCHANGED << chainVars, walletVars, evmVars, feePayerPublicKey, paymentPayload, paymentRequirements, existing,
                    edits, settleResponse, submitted >>

(* POST /settle *)
PostSettle ==
    /\ phase \in {"built", "verified", "changed"}
    /\ \E outcome \in ChainOutcomes :
          LET plan == settlePayment(paymentPayload, paymentRequirements, existing,
                                    feePayerPublicKey)
          IN  /\ settleResponse' = SettleResponseOf("/settle", plan, outcome)
              /\ submitted' =
                    IF plan.submit
                    THEN Append(submitted, [route |-> "/settle",
                                            transaction |-> plan.transaction,
                                            signedByFeePayer |-> plan.signedByFeePayer])
                    ELSE submitted
    /\ phase' = "settled"
    /\ UNCHANGED << chainVars, walletVars, evmVars, feePayerPublicKey, paymentPayload, paymentRequirements, existing,
                    edits, verifyResponse >>

atomicSettleRoute(payload, requirements, onChain, feePayerKey) ==
    IF "callbackInstructions" \notin DOMAIN requirements.extra
    THEN NoSubmission("No callback instructions provided for atomic transaction")
    ELSE settleAtomicPayment(payload, requirements, onChain, feePayerKey)

(* POST /atomic/settle *)
PostAtomicSettle ==
    /\ phase \in {"built", "verified", "changed"}
    /\ \E outcome \in ChainOutcomes :
          LET plan == atomicSettleRoute(paymentPayload, paymentRequirements, existing,
                                        feePayerPublicKey)
          IN  /\ settleResponse' = SettleResponseOf("/atomic/settle", plan, outcome)
              /\ submitted' =
                    IF plan.submit
                    THEN Append(submitted, [route |-> "/atomic/settle",
                                            transaction |-> plan.transaction,
                                            signedByFeePayer |-> plan.signedByFeePayer])
                    ELSE submitted
    /\ phase' = "settled"
    /\ UNCHANGED << chainVars, walletVars, evmVars, feePayerPublicKey, paymentPayload, paymentRequirements, existing,
                    edits, verifyResponse >>

NextSvm ==
    \/ CreatePayment
    \/ TamperTransaction
    \/ CorruptTransaction
    \/ ChangeRequirements
    \/ PostVerify
    \/ PostAtomicVerify
    \/ PostSettle
    \/ PostAtomicSettle

Spec == InitSvm /\ [][NextSvm]_vars

(***************************************************************************)
(* Properties of the account-model verifiers and settlement                *)
(***************************************************************************)
\* the request just answered by a verify route still stands in the state
AnsweredBy(route) == phase = "verified" /\ verifyResponse.route = route

AtomicAccepted == AnsweredBy("/atomic/verify") /\ verifyResponse.isValid

Instructions == decompileInstructions(paymentPayload.transaction)

\* the set-compute-unit-limit instructions of the transaction, in order
LimitInstructions == SelectSeq(Instructions, isSetComputeUnitLimit)

\* the limit the transaction sets (the last one where several are given)
TransactionLimit == getComputeUnitLimit(LimitInstructions[Len(LimitInstructions)])

TransferIndex ==
    LET S == {i \in 1..Len(Instructions) : isTokenTransferInstruction(Instructions[i])}
    IN  IF S = {} THEN 0 ELSE Min(S)

\* the instructions after the transfer instruction
TailInstructions == SubSeq(Instructions, TransferIndex + 1, Len(Instructions))

ExpectedCallbacks ==
    deserializeCallbackInstructions(paymentRequirements.extra.callbackInstructions)

\* C2: in every transaction the atomic verifier accepts, the instructions after
\* the transfer are the expected callbacks: as many, in the same order, each
\* equal to its callback in program, accounts with their flags, and data.
C2_TailEqualsCallbacks ==
    AtomicAccepted =>
        /\ TransferIndex > 0
        /\ Len(TailInstructions) = Len(ExpectedCallbacks)
        /\ \A i \in 1..Len(TailInstructions) :
                instructionsEqual(TailInstructions[i], ExpectedCallbacks[i])

\* a tail made of the expected callbacks in another order is rejected
C2_Witness ==
    /\ AnsweredBy("/atomic/verify")
    /\ ~verifyResponse.isValid
    /\ verifyResponse.log = "Callback instruction mismatch"
    /\ Len(TailInstructions) = Len(ExpectedCallbacks)
    /\ Len(TailInstructions) >= 2
    /\ \A i \in 1..Len(TailInstructions) : \E j \in 1..Len(TailInstructions) :
            instructionsEqual(TailInstructions[i], ExpectedCallbacks[j])
    /\ \A j \in 1..Len(TailInstructions) : \E i \in 1..Len(TailInstructions) :
            instructionsEqual(TailInstructions[i], ExpectedCallbacks[j])

\* the compute budget pair first, then at most one account creation, then the
\* transfer; what follows is the tail
PositionalShape(instructions) ==
    /\ Len(instructions) >= 3
    /\ \/ isSetComputeUnitPrice(instructions[1]) /\ isSetComputeUnitLimit(instructions[2])
       \/ isSetComputeUnitLimit(instructions[1]) /\ isSetComputeUnitPrice(instructions[2])
    /\ \/ isTokenTransferInstruction(instructions[3])
       \/ /\ Len(instructions) >= 4
          /\ isATACreationInstruction(instructions[3])
          /\ isTokenTransferInstruction(instructions[4])

\* C3: every transaction the atomic verifier accepts starts with the compute
\* budget pair (one set-price and one set-limit, nothing before or between
\* them), followed by at most one account creation, followed by the transfer.
C3_PositionalShape ==
    AtomicAccepted => PositionalShape(Instructions)

\* the payment instruction the verifiers read: the first token transfer
TransferDetails == parseUSDCTransferInstruction(Instructions[TransferIndex])

\* C4: in every transaction accepted by /verify or /atomic/verify the transfer
\* pays the associated token account of the requirement's recipient for the
\* requirement's asset, and pays at least the required amount.
C4_DestinationAndAmount ==
    (phase = "verified" /\ verifyResponse.isValid) =>
        /\ TransferIndex > 0
        /\ TransferDetails.destination =
                getAssociatedTokenAddress(paymentRequirements.asset,
                                          paymentRequirements.payTo)
        /\ ~U64Less(TransferDetails.amount, paymentRequirements.maxAmountRequired[1])

\* C9: /atomic/settle verifies the payload and requirements of its own request
\* before signing or sending; when they do not verify, whatever an earlier
\* /atomic/verify answered, it answers success=false and sends nothing.
C9_AtomicSettleVerifiesAgain ==
    (phase = "settled" /\ settleResponse.route = "/atomic/settle"
        /\ ~atomicVerifyRoute(paymentPayload, paymentRequirements, existing).isValid)
    => (~settleResponse.success /\ submitted = <<>>)

\* a payment accepted by /atomic/verify, changed afterwards, is refused by
\* /atomic/settle and nothing is sent
C9_Witness ==
    /\ phase = "settled"
    /\ verifyResponse.route = "/atomic/verify"
    /\ verifyResponse.isValid
    /\ edits > 0
    /\ settleResponse.route = "/atomic/settle"
    /\ ~settleResponse.success
    /\ settleResponse.error = "Atomic payment verification failed"
    /\ submitted = <<>>

(***************************************************************************)
(* Authorization-model payments (EIP-3009 transferWithAuthorization)       *)
(***************************************************************************)
\* addresses in checksum spelling; the lower case spelling names the same account
USER_ADDRESS == "0xUSER"
SERVER_ADDRESS == "0xSERVER"
FEE_RECEIVER_ADDRESS == "0xFEERECEIVER"
ATTACKER_ADDRESS == "0xATTACKER"
FACILITATOR_ADDRESS == "0xFACILITATOR"
\* what ecrecover yields for a signature made over another digest
UNRELATED_ADDRESS == "0xUNRELATED"

ChecksumAddresses ==
    { USER_ADDRESS, SERVER_ADDRESS, FEE_RECEIVER_ADDRESS, ATTACKER_ADDRESS,
      FACILITATOR_ADDRESS, UNRELATED_ADDRESS }

\* String.prototype.toLowerCase on the strings that occur
toLowerCase(str) ==
    CASE str = USER_ADDRESS -> "0xuser"
      [] str = SERVER_ADDRESS -> "0xserver"
      [] str = FEE_RECEIVER_ADDRESS -> "0xfeereceiver"
      [] str = ATTACKER_ADDRESS -> "0xattacker"
      [] str = FACILITATOR_ADDRESS -> "0xfacilitator"
      [] str = UNRELATED_ADDRESS -> "0xunrelated"
      [] OTHER -> str

\* ethers.isAddress: a checksum spelling or an all lower case spelling
isAddress(str) == \E a \in ChecksumAddresses : str \in {a, toLowerCase(a)}

\* EvmAddressRegex /^0x[a-fA-F0-9]{40}$/
EvmAddressRegex(str) == \E a \in ChecksumAddresses : str \in {a, toLowerCase(a)}

\* a nonce is kept as its identity and its length in bytes
Nonce(id, bytes) == [id |-> id, bytes |-> bytes]

\* HexEncoded64ByteRegex /^0x[a-fA-F0-9]{128}$/
HexEncoded64ByteRegex(nonce) == nonce.bytes = 64

EvmNetworks == {"base", "base-sepolia"}

\* PROXY_CONTRACTS: no address is configured for base by default
PROXY_CONTRACTS == ("base" :> "") @@ ("base-sepolia" :> "0xPROXY")

\* the EIP-712 domain of the USDC contract of the network (CHAIN_IDS,
\* USDC_DOMAIN_NAMES, USDC_DOMAIN_VERSIONS, USDC_ADDRESSES)
Eip712Domain(network) ==
    IF network = "base"
    THEN [name |-> "USD Coin", version |-> "2", chainId |-> 8453,
          verifyingContract |-> "0x833589fCD6eDb6E08f4c7C32D4f71b54bdA02913"]
    ELSE [name |-> "USDC", version |-> "2", chainId |-> 84532,
          verifyingContract |-> "0x036CbD53842c5426634e7929541eC2318f3dCF7e"]

\* ethers.TypedDataEncoder.hash throws on what is not an address or a bytes32
HashThrows(message) ==
    \/ ~isAddress(message.from)
    \/ ~isAddress(message.to)
    \/ message.nonce.bytes # 32

\* ethers.TypedDataEncoder.hash: addresses enter the digest as 20 bytes, so the
\* spelling of an address does not change it
TypedDataHash(domain, message) ==
    [domain |-> domain,
     from |-> toLowerCase(message.from),
     to |-> toLowerCase(message.to),
     value |-> message.value,
     validAfter |-> message.validAfter,
     validBefore |-> message.validBefore,
     nonce |-> message.nonce]

MessageOf(payAuth) ==
    [from |-> payAuth.from, to |-> payAuth.to, value |-> payAuth.value,
     validAfter |-> payAuth.validAfter, validBefore |-> payAuth.validBefore,
     nonce |-> payAuth.nonce]

\* wallet.signTypedData: r stands for the digest signed, s for the signing key
signTypedData(signerAddress, domain, message) ==
    [v |-> 27, r |-> TypedDataHash(domain, message), s |-> toLowerCase(signerAddress)]

\* ethers.recoverAddress: the signer when the signature was made over the digest,
\* some other account otherwise
recoverAddress(digest, signature) ==
    IF signature.r = digest
    THEN CHOOSE a \in ChecksumAddresses : toLowerCase(a) = signature.s
    ELSE UNRELATED_ADDRESS

\* the 65 byte signature string r || s || v and ethers.Signature.from
SerializedSignature(signature) == << signature.r, signature.s, signature.v >>
SignatureFrom(serialized) ==
    [v |-> serialized[3], r |-> serialized[1], s |-> serialized[2]]

\* EvmSignatureRegex /^0x[a-fA-F0-9]{130}$/
EvmSignatureRegex(serialized) == Len(serialized) = 3

isEvmPayload(payload) ==
    "signature" \in DOMAIN payload /\ "authorization" \in DOMAIN payload

isEVMAtomicPayload(payload) ==
    /\ "userPay" \in DOMAIN payload
    /\ "feePay" \in DOMAIN payload
    /\ "proxyContract" \in DOMAIN payload

EvmResult(isValid, text) == [isValid |-> isValid, log |-> text]

\* the signature check and the start of the window, without the check of its end
verifyTransferWithAuthorizationNoExpiry(payAuth, network, clock) ==
    IF network \notin EvmNetworks \/ HashThrows(MessageOf(payAuth))
    THEN EvmResult(FALSE, "Signature verification error")
    ELSE LET digest == TypedDataHash(Eip712Domain(network), MessageOf(payAuth))
             signature == [v |-> payAuth.v, r |-> payAuth.r, s |-> payAuth.s]
             recoveredAddress == recoverAddress(digest, signature)
         IN  IF toLowerCase(recoveredAddress) # toLowerCase(payAuth.from)
             THEN EvmResult(FALSE, "Signature verification failed")
             ELSE IF clock < payAuth.validAfter
             THEN EvmResult(FALSE, "Authorization not yet valid")
             ELSE EvmResult(TRUE, "")

(* EVMService.verifyTransferWithAuthorization *)
verifyTransferWithAuthorization(payAuth, network, clock) ==
    IF network \notin EvmNetworks \/ HashThrows(MessageOf(payAuth))
    THEN EvmResult(FALSE, "Signature verification error")
    ELSE LET digest == TypedDataHash(Eip712Domain(network), MessageOf(payAuth))
             signature == [v |-> payAuth.v, r |-> payAuth.r, s |-> payAuth.s]
             recoveredAddress == recoverAddress(digest, signature)
         IN  IF toLowerCase(recoveredAddress) # toLowerCase(payAuth.from)
             THEN EvmResult(FALSE, "Signature verification failed")
             ELSE IF clock < payAuth.validAfter
             THEN EvmResult(FALSE, "Authorization not yet valid")
             ELSE IF clock > payAuth.validBefore
             THEN EvmResult(FALSE, "Authorization expired")
             ELSE EvmResult(TRUE, "")

(* EVMService.convertExactEvmPayloadToPayAuth *)
convertExactEvmPayloadToPayAuth(payload) ==
    LET sig == SignatureFrom(payload.signature)
    IN  [from |-> payload.authorization.from,
         to |-> payload.authorization.to,
         value |-> payload.authorization.value,
         validAfter |-> payload.authorization.validAfter,
         validBefore |-> payload.authorization.validBefore,
         nonce |-> payload.authorization.nonce,
         v |-> sig.v, r |-> sig.r, s |-> sig.s]

(* EVMService.verifyPayment *)
evmVerifyPayment(payAuth, network, expectedTo, expectedValue, clock) ==
    IF ~isAddress(payAuth.from) \/ ~isAddress(payAuth.to)
    THEN EvmResult(FALSE, "Invalid addresses in payment authorization")
    ELSE IF ~verifyTransferWithAuthorization(payAuth, network, clock).isValid
    THEN EvmResult(FALSE, "Signature verification failed: "
                \o verifyTransferWithAuthorization(payAuth, network, clock).log)
    ELSE IF toLowerCase(payAuth.to) # toLowerCase(expectedTo)
    THEN EvmResult(FALSE, "Payment recipient mismatch")
    ELSE IF payAuth.value < expectedValue
    THEN EvmResult(FALSE, "Insufficient payment")
    ELSE EvmResult(TRUE, "")

(* EVMService.verifyPaymentWithRequirements *)
verifyPaymentWithRequirements(payload, requirements, clock) ==
    IF ~isEvmPayload(payload) THEN EvmResult(FALSE, "Not an EVM payload")
    ELSE IF ~EvmSignatureRegex(payload.signature)
    THEN EvmResult(FALSE, "Error")
    ELSE evmVerifyPayment(convertExactEvmPayloadToPayAuth(payload), requirements.network,
                          requirements.payTo, requirements.maxAmountRequired[1], clock)

\* the fee the proxy contract takes: floor(userPay.value * feeBps / 10000)
ExpectedFee(userValue, bps) == (userValue * bps) \div 10000

\* the fee amount check with a fee that only has to cover the expected fee
FeeValueCheckAtLeast(feePay, userPay, bps) ==
    IF feePay.value < ExpectedFee(userPay.value, bps)
    THEN "feePay.value does not match expected fee"
    ELSE ""

\* EVMService.verifyAtomicPayment, the fee amount check
FeeValueCheck(feePay, userPay, bps) ==
    IF feePay.value # ExpectedFee(userPay.value, bps)
    THEN "feePay.value does not match expected fee"
    ELSE ""

(* EVMService.verifyAtomicPayment: it is given the payload only *)
evmVerifyAtomicPayment(payload, clock, feeReceiver, bps) ==
    LET userPay == payload.userPay
        feePay == payload.feePay
        network == payload.network
    IN  IF network \notin EvmNetworks \/ PROXY_CONTRACTS[network] = ""
        THEN EvmResult(FALSE, "Verification error: No proxy contract configured")
        ELSE IF ~isAddress(userPay.from) \/ ~isAddress(userPay.to)
        THEN EvmResult(FALSE, "Invalid addresses in userPay")
        ELSE IF ~isAddress(feePay.from) \/ ~isAddress(feePay.to)
        THEN EvmResult(FALSE, "Invalid addresses in feePay")
        ELSE IF ~verifyTransferWithAuthorization(userPay, network, clock).isValid
        THEN EvmResult(FALSE, "userPay signature verification failed: "
                    \o verifyTransferWithAuthorization(userPay, network, clock).log)
        ELSE IF ~verifyTransferWithAuthorization(feePay, network, clock).isValid
        THEN EvmResult(FALSE, "feePay signature verification failed: "
                    \o verifyTransferWithAuthorization(feePay, network, clock).log)
        ELSE IF toLowerCase(feePay.to) # toLowerCase(feeReceiver)
        THEN EvmResult(FALSE, "feePay.to does not match feeReceiver")
        ELSE IF FeeValueCheck(feePay, userPay, bps) # ""
        THEN EvmResult(FALSE, FeeValueCheck(feePay, userPay, bps))
        ELSE IF toLowerCase(feePay.from) # toLowerCase(userPay.to)
        THEN EvmResult(FALSE, "feePay.from must equal userPay.to")
        ELSE EvmResult(TRUE, "")

(* BaseService.verifyPayment *)
baseVerifyPayment(payload, requirements, clock) ==
    IF requirements.network \notin EvmNetworks THEN EvmResult(FALSE, "")
    ELSE IF ~isEvmPayload(payload)
    THEN EvmResult(FALSE, "Invalid payment payload: not an EVM transaction")
    ELSE IF ~EvmSignatureRegex(payload.signature)
    THEN EvmResult(FALSE, "Invalid signature format")
    ELSE LET auth == payload.authorization
         IN  IF ~EvmAddressRegex(auth.from) \/ ~EvmAddressRegex(auth.to)
             THEN EvmResult(FALSE, "Invalid EVM addresses")
             ELSE IF ~HexEncoded64ByteRegex(auth.nonce)
             THEN EvmResult(FALSE, "Invalid nonce format")
             ELSE IF clock < auth.validAfter
             THEN EvmResult(FALSE, "Transfer not yet valid")
             ELSE IF clock > auth.validBefore
             THEN EvmResult(FALSE, "Transfer expired")
             ELSE IF requirements.payTo # ""
                     /\ toLowerCase(auth.to) # toLowerCase(requirements.payTo)
             THEN EvmResult(FALSE, "Recipient mismatch")
             ELSE IF requirements.maxAmountRequired # <<>>
                     /\ auth.value < requirements.maxAmountRequired[1]
             THEN EvmResult(FALSE, "Insufficient amount")
             ELSE EvmResult(TRUE, "")

\* a call of a contract method through the facilitator's wallet
ContractCall(method, args) == [submit |-> TRUE, method |-> method, args |-> args]

(* EVMService.settlePaymentWithRequirements and settlePayment, up to the call
   of usdc.transferWithAuthorization *)
settlePaymentWithRequirements(payload, requirements, wallet) ==
    IF ~isEvmPayload(payload) THEN NoSubmission("Not an EVM payload")
    ELSE IF ~EvmSignatureRegex(payload.signature) THEN NoSubmission("Error")
    ELSE IF wallet = "" THEN NoSubmission("Facilitator wallet not configured")
    ELSE IF requirements.network \notin EvmNetworks
    THEN NoSubmission("Settlement error: No USDC address configured")
    ELSE ContractCall("transferWithAuthorization",
                      << convertExactEvmPayloadToPayAuth(payload) >>)

(* EVMService.settleAtomicPayment, up to the call of the proxy contract *)
evmSettleAtomicPayment(payload, wallet) ==
    IF wallet = "" THEN NoSubmission("Facilitator wallet not configured")
    ELSE IF payload.network \notin EvmNetworks \/ PROXY_CONTRACTS[payload.network] = ""
    THEN NoSubmission("Settlement error: No proxy contract configured")
    ELSE ContractCall("settleUserToServerWithFixedFeeAndCallback",
                      << payload.userPay, payload.feePay, payload.target,
                         payload.callback >>)

\* tx.wait(): the receipt has status 1, or the call reverts
EvmChainOutcomes == {"confirmed", "reverted"}

EvmSettleResponseOf(route, plan, outcome) ==
    IF ~plan.submit THEN [route |-> route, success |-> FALSE, error |-> plan.error]
    ELSE IF outcome = "confirmed"
    THEN [route |-> route, success |-> TRUE, error |-> ""]
    ELSE [route |-> route, success |-> FALSE, error |-> "Settlement error"]

(***************************************************************************)
(* Building authorization payloads (clients and the merchant server)       *)
(***************************************************************************)
EvmAmounts == {1, LargeOddAmount}
FeeBpsValues == {0, 1, MaxFeeBps}

EvmRequirements(amount) ==
    [scheme |-> "exact",
     network |-> "base-sepolia",
     maxAmountRequired |-> <<amount>>,
     payTo |-> SERVER_ADDRESS,
     asset |-> "0x036CbD53842c5426634e7929541eC2318f3dCF7e",
     extra |-> <<>>]

\* signTransferAuthorization: the authorization with the signature of `from`
signTransferAuthorization(from, to, value, validAfter, validBefore, nonce, network) ==
    LET message == [from |-> from, to |-> to, value |-> value, validAfter |-> validAfter,
                    validBefore |-> validBefore, nonce |-> nonce]
        signature == signTypedData(from, Eip712Domain(network), message)
    IN  [from |-> from, to |-> to, value |-> value, validAfter |-> validAfter,
         validBefore |-> validBefore, nonce |-> nonce,
         v |-> signature.v, r |-> signature.r, s |-> signature.s]

\* { signature, authorization } as the client sends it
ExactEvmPayloadOf(payAuth) ==
    [signature |-> SerializedSignature([v |-> payAuth.v, r |-> payAuth.r, s |-> payAuth.s]),
     authorization |-> MessageOf(payAuth)]

\* createPaymentPayload of the EVM client
ClientUserPay(requirements, clock) ==
    signTransferAuthorization(USER_ADDRESS, requirements.payTo,
        requirements.maxAmountRequired[1], clock - SkewSeconds, clock + TimeoutSeconds,
        Nonce(1, 32), requirements.network)

\* generateEVMFeePay of the merchant middleware
ServerFeePay(userPay, network, feeReceiver, bps, clock) ==
    signTransferAuthorization(SERVER_ADDRESS, feeReceiver,
        ExpectedFee(userPay.value, bps), clock - SkewSeconds, clock + TimeoutSeconds,
        Nonce(2, 32), network)

AtomicEvmPayloadOf(userPay, feePay, network) ==
    [userPay |-> userPay, feePay |-> feePay, target |-> "0xTARGET", callback |-> "0x",
     network |-> network, proxyContract |-> PROXY_CONTRACTS[network]]

InitEvm ==
    /\ feePayerPublicKey = ""
    /\ existing = {}
    /\ phase = "idle"
    /\ paymentPayload = [none |-> TRUE]
    /\ paymentRequirements = EvmRequirements(1)
    /\ edits = 0
    /\ verifyResponse = NoResponse
    /\ settleResponse = NoResponse
    /\ submitted = <<>>
    /\ now = 1
    /\ feeBps \in FeeBpsValues
    /\ facilitatorWallet \in {"", FACILITATOR_ADDRESS}
    /\ intentResult = NoResponse
    /\ signResult = NoResponse
    /\ usdc = NoToken
    /\ callbacks = <<>>
    /\ clientResult = NoResponse
    /\ mw = NoResponse

\* the client answers a 402; for an atomic payment the server adds its feePay
CreateEvmPayment ==
    /\ phase = "idle"
    /\ \E atomic \in BOOLEAN, amount \in EvmAmounts :
          LET requirements == EvmRequirements(amount)
              userPay == ClientUserPay(requirements, now)
          IN  /\ paymentRequirements' = requirements
              /\ paymentPayload' =
                    IF atomic
                    THEN AtomicEvmPayloadOf(userPay,
                            ServerFeePay(userPay, requirements.network,
                                         FEE_RECEIVER_ADDRESS, feeBps, now),
                            requirements.network)
                    ELSE ExactEvmPayloadOf(userPay)
    /\ phase' = "built"
    /\ UNCHANGED << chainVars, walletVars, svmVars, evmVars, edits, verifyResponse, settleResponse, submitted >>

\* a second passes
Tick ==
    /\ phase = "built"
    /\ now < MaxTime
    /\ now' = now + 1
    /\ UNCHANGED << chainVars, walletVars, svmVars, feeBps, facilitatorWallet, phase, paymentPayload,
                    paymentRequirements, edits, verifyResponse, settleResponse,
                    submitted >>

AuthorizationSlots(payload) ==
    IF isEvmPayload(payload) THEN {"authorization"} ELSE {"userPay", "feePay"}

GetAuthorization(payload, slot) ==
    IF slot = "authorization" THEN convertExactEvmPayloadToPayAuth(payload)
    ELSE payload[slot]

PutAuthorization(payload, slot, payAuth) ==
    IF slot = "authorization" THEN ExactEvmPayloadOf(payAuth)
    ELSE [payload EXCEPT ![slot] = payAuth]

\* the authorization changed with its signature left as it was, or the
\* signature replaced by one of another key
TamperedAuthorizations(payAuth) ==
    { [payAuth EXCEPT !.to = ATTACKER_ADDRESS],
      [payAuth EXCEPT !.to = toLowerCase(payAuth.to)],
      [payAuth EXCEPT !.nonce = Nonce(payAuth.nonce.id, 64)],
      [payAuth EXCEPT !.s = toLowerCase(ATTACKER_ADDRESS)] } \ {payAuth}

\* another authorization signed by the same account
ResignedAuthorizations(payAuth, network) ==
    { signTransferAuthorization(payAuth.from, payAuth.to, value, validAfter, validBefore,
                                payAuth.nonce, network) :
        <<value, validAfter, validBefore>> \in
            { <<payAuth.value + 1, payAuth.validAfter, payAuth.validBefore>>,
              <<1, payAuth.validAfter, payAuth.validBefore>>,
              <<0, payAuth.validAfter, payAuth.validBefore>>,
              <<payAuth.value, payAuth.validAfter, 0>>,
              <<payAuth.value, payAuth.validAfter + SkewSeconds, payAuth.validBefore>>,
              <<payAuth.value, MaxTime + 1, MaxTime + 2>> } } \ {payAuth}

(* the payload sent carries an authorization other than the one signed *)
TamperAuthorization ==
    /\ phase = "built"
    /\ edits < MaxEdits
    /\ \E slot \in AuthorizationSlots(paymentPayload) :
          \E payAuth \in TamperedAuthorizations(GetAuthorization(paymentPayload, slot)) :
              paymentPayload' = PutAuthorization(paymentPayload, slot, payAuth)
    /\ edits' = edits + 1
    /\ UNCHANGED << chainVars, walletVars, svmVars, evmVars, phase, paymentRequirements, verifyResponse,
                    settleResponse, submitted >>

(* the payer or the server signs another authorization than the expected one *)
ResignAuthorization ==
    /\ phase = "built"
    /\ edits < MaxEdits
    /\ \E slot \in AuthorizationSlots(paymentPayload) :
          \E payAuth \in ResignedAuthorizations(GetAuthorization(paymentPayload, slot),
                                                paymentRequirements.network) :
              /\ ~HashThrows(MessageOf(payAuth))
              /\ paymentPayload' = PutAuthorization(paymentPayload, slot, payAuth)
    /\ edits' = edits + 1
    /\ UNCHANGED << chainVars, walletVars, svmVars, evmVars, phase, paymentRequirements, verifyResponse,
                    settleResponse, submitted >>

(* the requirements sent differ from the ones the payment was built for *)
ChangeEvmRequirements ==
    /\ phase = "built"
    /\ edits < MaxEdits
    /\ \E requirements \in
            { [paymentRequirements EXCEPT !.payTo = ATTACKER_ADDRESS],
              [paymentRequirements EXCEPT !.payTo = toLowerCase(SERVER_ADDRESS)],
              [paymentRequirements EXCEPT !.maxAmountRequired =
                    << paymentRequirements.maxAmountRequired[1] + 1 >>] } :
          /\ requirements # paymentRequirements
          /\ paymentRequirements' = requirements
    /\ edits' = edits + 1
    /\ UNCHANGED << chainVars, walletVars, svmVars, evmVars, phase, paymentPayload, verifyResponse,
                    settleResponse, submitted >>

(***************************************************************************)
(* The facilitator's routes for the authorization-model networks           *)
(***************************************************************************)
\* const response: VerifyResponse = { isValid }
VerifyResponseOf(route, result) ==
    [route |-> route, isValid |-> result.isValid, log |-> result.log, error |-> ""]

\* const response: AtomicVerifyResponse = { isValid, error }
AtomicVerifyResponseOf(route, result) ==
    [route |-> route, isValid |-> result.isValid, log |-> result.log,
     error |-> result.log]

(* POST /verify, the route that dispatches base and base-sepolia to EVMService *)
PostVerifyEvm ==
    /\ phase = "built"
    /\ verifyResponse' = VerifyResponseOf("/verify",
            verifyPaymentWithRequirements(paymentPayload, paymentRequirements, now))
    /\ phase' = "verified"
    /\ UNCHANGED << chainVars, walletVars, svmVars, evmVars, paymentPayload, paymentRequirements, edits,
                    settleResponse, submitted >>

(* POST /verify, the route that dispatches base and base-sepolia to BaseService *)
PostVerifyBase ==
    /\ phase = "built"
    /\ verifyResponse' = VerifyResponseOf("/verify",
            baseVerifyPayment(paymentPayload, paymentRequirements, now))
    /\ phase' = "verified"
    /\ UNCHANGED << chainVars, walletVars, svmVars, evmVars, paymentPayload, paymentRequirements, edits,
                    settleResponse, submitted >>

\* the route answers 400 itself when the payload is not an atomic payload
evmAtomicVerifyRoute(payload, clock, feeReceiver, bps) ==
    IF ~isEVMAtomicPayload(payload)
    THEN EvmResult(FALSE, "Invalid EVM atomic payment payload structure")
    ELSE evmVerifyAtomicPayment(payload, clock, feeReceiver, bps)

(* POST /atomic/verify *)
PostAtomicVerifyEvm ==
    /\ phase = "built"
    /\ verifyResponse' = AtomicVerifyResponseOf("/atomic/verify",
            evmAtomicVerifyRoute(paymentPayload, now, FEE_RECEIVER_ADDRESS, feeBps))
    /\ phase' = "verified"
    /\ UNCHANGED << chainVars, walletVars, svmVars, evmVars, paymentPayload, paymentRequirements, edits,
                    settleResponse, submitted >>

(* POST /settle *)
PostSettleEvm ==
    /\ phase \in {"built", "verified"}
    /\ \E outcome \in EvmChainOutcomes :
          LET plan == settlePaymentWithRequirements(paymentPayload, paymentRequirements,
                                                    facilitatorWallet)
          IN  /\ settleResponse' = EvmSettleResponseOf("/settle", plan, outcome)
              /\ submitted' =
                    IF plan.submit
                    THEN Append(submitted, [route |-> "/settle", method |-> plan.method,
                                            args |-> plan.args])
                    ELSE submitted
    /\ phase' = "settled"
    /\ UNCHANGED << chainVars, walletVars, svmVars, evmVars, paymentPayload, paymentRequirements, edits,
                    verifyResponse >>

evmAtomicSettleRoute(payload, wallet) ==
    IF ~isEVMAtomicPayload(payload)
    THEN NoSubmission("Invalid EVM atomic payment payload structure")
    ELSE evmSettleAtomicPayment(payload, wallet)

(* POST /atomic/settle *)
PostAtomicSettleEvm ==
    /\ phase \in {"built", "verified"}
    /\ \E outcome \in EvmChainOutcomes :
          LET plan == evmAtomicSettleRoute(paymentPayload, facilitatorWallet)
          IN  /\ settleResponse' = EvmSettleResponseOf("/atomic/settle", plan, outcome)
              /\ submitted' =
                    IF plan.submit
                    THEN Append(submitted, [route |-> "/atomic/settle",
                                            method |-> plan.method, args |-> plan.args])
                    ELSE submitted
    /\ phase' = "settled"
    /\ UNCHANGED << chainVars, walletVars, svmVars, evmVars, paymentPayload, paymentRequirements, edits,
                    verifyResponse >>

NextEvm ==
    \/ CreateEvmPayment
    \/ Tick
    \/ TamperAuthorization
    \/ ResignAuthorization
    \/ ChangeEvmRequirements
    \/ PostVerifyEvm
    \/ PostVerifyBase
    \/ PostAtomicVerifyEvm
    \/ PostSettleEvm
    \/ PostAtomicSettleEvm

SpecEvm == InitEvm /\ [][NextEvm]_vars

(***************************************************************************)
(* Properties of the authorization-model verifiers and of settlement       *)
(***************************************************************************)
\* the address recovered from the signature over the EIP-712 digest of the
\* authorization is its `from`
SignedByFrom(payAuth, network) ==
    /\ network \in EvmNetworks
    /\ ~HashThrows(MessageOf(payAuth))
    /\ toLowerCase(recoverAddress(
            TypedDataHash(Eip712Domain(network), MessageOf(payAuth)),
            [v |-> payAuth.v, r |-> payAuth.r, s |-> payAuth.s]))
         = toLowerCase(payAuth.from)

\* C5: whichever implementation answers /verify for an authorization payload,
\* it accepts only when the address recovered from the signature over the
\* digest of (from, to, value, validAfter, validBefore, nonce) equals `from`.
C5_AcceptedOnlyIfSignedByFrom ==
    (phase = "verified" /\ verifyResponse.route = "/verify" /\ verifyResponse.isValid
        /\ isEvmPayload(paymentPayload))
    => SignedByFrom(convertExactEvmPayloadToPayAuth(paymentPayload),
                    paymentRequirements.network)

EvmAtomicAccepted ==
    /\ phase = "verified"
    /\ verifyResponse.route = "/atomic/verify"
    /\ verifyResponse.isValid
    /\ isEVMAtomicPayload(paymentPayload)

\* C6: every atomic payload accepted has a userPay signed by its `from`, valid
\* at the current time, paying the requirement's recipient (in any letter
\* case) at least the requirement's minimum.
C6_UserPayMeetsRequirements ==
    EvmAtomicAccepted =>
        /\ SignedByFrom(paymentPayload.userPay, paymentPayload.network)
        /\ paymentPayload.userPay.validAfter <= now
        /\ now <= paymentPayload.userPay.validBefore
        /\ toLowerCase(paymentPayload.userPay.to) = toLowerCase(paymentRequirements.payTo)
        /\ paymentPayload.userPay.value >= paymentRequirements.maxAmountRequired[1]

\* fee is the floor of value * bps / 10000
IsFloorOfFee(fee, value, bps) ==
    fee * 10000 <= value * bps /\ value * bps < (fee + 1) * 10000

\* C7: every atomic pair accepted has feePay.from = userPay.to, feePay.to = the
\* fee receiver of the proxy contract, and feePay.value exactly
\* floor(userPay.value * feeBps / 10000).
C7_FeeFormulaExact ==
    EvmAtomicAccepted =>
        /\ toLowerCase(paymentPayload.feePay.from) = toLowerCase(paymentPayload.userPay.to)
        /\ toLowerCase(paymentPayload.feePay.to) = toLowerCase(FEE_RECEIVER_ADDRESS)
        /\ IsFloorOfFee(paymentPayload.feePay.value, paymentPayload.userPay.value, feeBps)

\* a pair of valid authorizations for the large odd amount at the highest
\* fee rate, whose fee is one more than the floor, is rejected for its fee
C7_Witness ==
    /\ phase = "verified"
    /\ verifyResponse.route = "/atomic/verify"
    /\ ~verifyResponse.isValid
    /\ verifyResponse.log = "feePay.value does not match expected fee"
    /\ feeBps = MaxFeeBps
    /\ paymentPayload.userPay.value = LargeOddAmount
    /\ IsFloorOfFee(paymentPayload.feePay.value - 1, paymentPayload.userPay.value, feeBps)
    /\ toLowerCase(paymentPayload.feePay.from) = toLowerCase(paymentPayload.userPay.to)

\* what the verifier of the route answers for the payment of the state
VerifiesOn(route) ==
    IF isSvmPayload(paymentPayload)
    THEN IF route = "/settle"
         THEN verifyPayment(paymentPayload, paymentRequirements, existing).isValid
         ELSE atomicVerifyRoute(paymentPayload, paymentRequirements, existing).isValid
    ELSE IF route = "/settle"
         THEN verifyPaymentWithRequirements(paymentPayload, paymentRequirements,
                                            now).isValid
         ELSE evmAtomicVerifyRoute(paymentPayload, now, FEE_RECEIVER_ADDRESS,
                                   feeBps).isValid

\* C8: on every settlement route, something is handed to the chain only when
\* the payload verifies against the requirements of the request.
C8_SubmittedOnlyIfVerified ==
    (phase = "settled" /\ submitted # <<>>) => VerifiesOn(settleResponse.route)

(***************************************************************************)
(* The wallet of the MCP server: intent check and signing                  *)
(* TransactionParser classifies instructions with the same code as         *)
(* SolanaService; the operators above stand for both.                      *)
(***************************************************************************)
\* config.requireIntentCheckForSigning
requireIntentCheckForSigning == TRUE

(* TransactionParser.isSystemTransfer *)
isSystemTransfer(instruction) ==
    /\ instruction.programId = SYSTEM_PROGRAM_ID
    /\ Len(instruction.data) >= 4
    /\ readUInt32LE(instruction.data, 0) = 2

(* TransactionParser.identifyProgram *)
identifyProgram(programId) ==
    IF programId = COMPUTE_BUDGET_PROGRAM_ID THEN "Compute Budget"
    ELSE IF programId = TOKEN_PROGRAM_ID THEN "Token Program"
    ELSE IF programId = ASSOCIATED_TOKEN_PROGRAM_ID THEN "Associated Token Program"
    ELSE IF programId = SYSTEM_PROGRAM_ID THEN "System Program"
    ELSE programId \o "..."

(* TransactionParser.decompileTransaction: [] when the message does not decompile *)
decompileTransaction(transaction) ==
    IF transaction.decodable THEN decompileInstructions(transaction) ELSE <<>>

\* the loop body of analyzeTransaction for one instruction: the errors and the
\* warnings it pushes
InstructionErrors(ix, maxComputeUnitLimit) ==
    IF isSetComputeUnitLimit(ix) /\ getComputeUnitLimit(ix) > maxComputeUnitLimit
    THEN << "Compute unit limit exceeds maximum allowed. This could drain your SOL." >>
    ELSE <<>>

InstructionWarnings(ix, userWallet) ==
    LET hits == {k \in 1..Len(ix.keys) :
                    /\ ix.keys[k].pubkey = userWallet
                    /\ ix.keys[k].isSigner
                    /\ ix.keys[k].isWritable}
    IN  IF ~isTokenTransferInstruction(ix) /\ ~isSystemTransfer(ix)
           /\ ~isATACreationInstruction(ix)
        THEN [i \in 1..Cardinality(hits) |->
                "Unknown instruction requires your wallet as a writable signer. Program: "
                    \o identifyProgram(ix.programId)]
        ELSE <<>>

RECURSIVE CollectErrors(_, _)
CollectErrors(instructions, maxComputeUnitLimit) ==
    IF instructions = <<>> THEN <<>>
    ELSE InstructionErrors(Head(instructions), maxComputeUnitLimit)
            \o CollectErrors(Tail(instructions), maxComputeUnitLimit)

RECURSIVE CollectWarnings(_, _)
CollectWarnings(instructions, userWallet) ==
    IF instructions = <<>> THEN <<>>
    ELSE InstructionWarnings(Head(instructions), userWallet)
            \o CollectWarnings(Tail(instructions), userWallet)

\* a Buffer read past the end of the data of a compute budget instruction
AnalysisThrows(instructions) ==
    \E i \in 1..Len(instructions) :
        /\ isSetComputeUnitLimit(instructions[i]) \/ isSetComputeUnitPrice(instructions[i])
        /\ ~CanRead(instructions[i].data, 1, 4)

\* the analysis judging the compute unit limit by the value the summary shows
\* (the last limit instruction) and not instruction by instruction
analyzeTransactionLastLimit(transaction, userWallet) ==
    LET instructions == decompileTransaction(transaction)
        scan == ComputeBudgetScan(instructions)
        errors ==
            IF scan.foundUnitLimit > ConfigMaxComputeUnitLimitAtomic
            THEN << "Compute unit limit exceeds maximum allowed. This could drain your SOL." >>
            ELSE <<>>
        warnings ==
            CollectWarnings(instructions, userWallet)
            \o (IF scan.hasUnitPrice /\ ~scan.hasComputeLimit
                THEN << "Transaction has compute unit price but no limit set" >>
                ELSE <<>>)
    IN  IF Len(instructions) = 0
        THEN [throws |-> FALSE, safe |-> FALSE, warnings |-> <<>>,
              errors |-> << "Failed to decompile transaction instructions" >>,
              computeUnits |-> 0, computeUnitPrice |-> 0]
        ELSE IF AnalysisThrows(instructions)
        THEN [throws |-> TRUE, safe |-> FALSE, warnings |-> <<>>, errors |-> <<>>,
              computeUnits |-> 0, computeUnitPrice |-> 0]
        ELSE [throws |-> FALSE, safe |-> Len(errors) = 0, warnings |-> warnings,
              errors |-> errors,
              computeUnits |-> scan.foundUnitLimit,
              computeUnitPrice |-> scan.foundUnitPrice]

(* IntentChecker.analyzeTransaction *)
analyzeTransaction(transaction, userWallet) ==
    LET instructions == decompileTransaction(transaction)
        scan == ComputeBudgetScan(instructions)
        errors == CollectErrors(instructions, ConfigMaxComputeUnitLimitAtomic)
        warnings ==
            CollectWarnings(instructions, userWallet)
            \o (IF scan.hasUnitPrice /\ ~scan.hasComputeLimit
                THEN << "Transaction has compute unit price but no limit set" >>
                ELSE <<>>)
    IN  IF Len(instructions) = 0
        THEN [throws |-> FALSE, safe |-> FALSE, warnings |-> <<>>,
              errors |-> << "Failed to decompile transaction instructions" >>,
              computeUnits |-> 0, computeUnitPrice |-> 0]
        ELSE IF AnalysisThrows(instructions)
        THEN [throws |-> TRUE, safe |-> FALSE, warnings |-> <<>>, errors |-> <<>>,
              computeUnits |-> 0, computeUnitPrice |-> 0]
        ELSE [throws |-> FALSE, safe |-> Len(errors) = 0, warnings |-> warnings,
              errors |-> errors,
              computeUnits |-> scan.foundUnitLimit,
              computeUnitPrice |-> scan.foundUnitPrice]

(* signTransaction: what it returns, or that it threw *)
signTransaction(transaction, userWallet, skipIntentCheck) ==
    LET checked == ~skipIntentCheck /\ requireIntentCheckForSigning
        result == analyzeTransaction(transaction, userWallet)
    IN  IF checked /\ result.throws
        THEN [route |-> "transaction_sign", threw |-> TRUE, signed |-> FALSE,
              skipIntentCheck |-> skipIntentCheck, error |-> "RangeError"]
        ELSE IF checked /\ ~result.safe
        THEN [route |-> "transaction_sign", threw |-> TRUE, signed |-> FALSE,
              skipIntentCheck |-> skipIntentCheck,
              error |-> "Transaction failed safety check"]
        ELSE IF userWallet \notin transaction.signers
        THEN [route |-> "transaction_sign", threw |-> TRUE, signed |-> FALSE,
              skipIntentCheck |-> skipIntentCheck,
              error |-> "Cannot sign with non signer key"]
        ELSE [route |-> "transaction_sign", threw |-> FALSE, signed |-> TRUE,
              skipIntentCheck |-> skipIntentCheck, error |-> ""]

\* SystemProgram.transfer: instruction type 2 (u32), lamports (u64)
systemTransfer(fromPubkey, toPubkey, lamports) ==
    [programId |-> SYSTEM_PROGRAM_ID,
     keys |-> << Key(fromPubkey, TRUE, TRUE), Key(toPubkey, FALSE, TRUE) >>,
     data |-> LE32(2) \o LE32(lamports) \o <<0, 0, 0, 0>>]

\* SystemProgram.assign: instruction type 1 (u32), the new owner of the account
systemAssign(accountPubkey) ==
    [programId |-> SYSTEM_PROGRAM_ID,
     keys |-> << Key(accountPubkey, TRUE, TRUE) >>,
     data |-> LE32(1)]

\* an instruction of a program the parser does not know, which writes to the
\* account that signs it
UnknownProgramInstruction(signerPubkey) ==
    [programId |-> CALLBACK_PROGRAM_ID,
     keys |-> << Key(signerPubkey, TRUE, TRUE), Key("MerchantState", FALSE, TRUE) >>,
     data |-> <<9>>]

\* instructions a server may put into the transaction it asks the user to sign
ServerAddedInstructions ==
    { UnknownProgramInstruction(UserWallet),
      systemAssign(UserWallet),
      systemTransfer(UserWallet, Attacker, RequiredAmount),
      setComputeUnitLimit(ConfigMaxComputeUnitLimitAtomic + 1),
      [programId |-> COMPUTE_BUDGET_PROGRAM_ID, keys |-> <<>>, data |-> <<2>>],
      CallbackInstruction(3) }

InitIntent ==
    /\ feePayerPublicKey = ""
    /\ existing = {}
    /\ phase = "idle"
    /\ paymentPayload = [transaction |-> CompileMessage(UserWallet, <<>>)]
    /\ paymentRequirements = BaseRequirements(FALSE, "")
    /\ edits = 0
    /\ verifyResponse = NoResponse
    /\ settleResponse = NoResponse
    /\ submitted = <<>>
    /\ now = 0
    /\ feeBps = 0
    /\ facilitatorWallet = ""
    /\ intentResult = NoResponse
    /\ signResult = NoResponse
    /\ usdc = NoToken
    /\ callbacks = <<>>
    /\ clientResult = NoResponse
    /\ mw = NoResponse

\* a server answers with a transaction for the user to sign
ReceiveTransaction ==
    /\ phase = "idle"
    /\ \E atomic \in BOOLEAN, needsATACreation \in BOOLEAN,
          feePayer \in {"", FacilitatorFeePayer} :
          /\ paymentRequirements' = BaseRequirements(atomic, feePayer)
          /\ paymentPayload' =
                [transaction |-> ClientTransaction(paymentRequirements', atomic,
                                                   needsATACreation)]
    /\ phase' = "built"
    /\ UNCHANGED << chainVars, walletVars, svmVars, evmVars, edits, verifyResponse, settleResponse,
                    submitted >>

(* the server put one more instruction into the transaction *)
PadTransaction ==
    /\ phase = "built"
    /\ edits < MaxEdits
    /\ \E pos \in 1..(Len(paymentPayload.transaction.ixs) + 1),
          instruction \in ServerAddedInstructions :
          paymentPayload' =
            [transaction |->
                CompileMessage(paymentPayload.transaction.payerKey,
                    InsertAt(decompileInstructions(paymentPayload.transaction),
                             pos, instruction))]
    /\ edits' = edits + 1
    /\ UNCHANGED << chainVars, walletVars, svmVars, evmVars, phase, paymentRequirements,
                    verifyResponse, settleResponse, submitted >>

(* what arrives is not a transaction message that decompiles *)
GarbleTransaction ==
    /\ phase = "built"
    /\ edits < MaxEdits
    /\ paymentPayload.transaction.decodable
    /\ paymentPayload' =
            [transaction |-> [paymentPayload.transaction EXCEPT !.decodable = FALSE]]
    /\ edits' = edits + 1
    /\ UNCHANGED << chainVars, walletVars, svmVars, evmVars, phase, paymentRequirements,
                    verifyResponse, settleResponse, submitted >>

(* tool transaction_analyze *)
TransactionAnalyze ==
    /\ phase = "built"
    /\ ~analyzeTransaction(paymentPayload.transaction, UserWallet).throws
    /\ intentResult' =
            [route |-> "transaction_analyze",
             safe |-> analyzeTransaction(paymentPayload.transaction, UserWallet).safe,
             warnings |-> analyzeTransaction(paymentPayload.transaction,
                                             UserWallet).warnings,
             errors |-> analyzeTransaction(paymentPayload.transaction, UserWallet).errors]
    /\ phase' = "analyzed"
    /\ UNCHANGED << chainVars, svmVars, evmVars, paymentPayload, paymentRequirements, edits,
                    verifyResponse, settleResponse, submitted, signResult >>

(* tool transaction_analyze when reading the transaction throws *)
TransactionAnalyzeThrows ==
    /\ phase = "built"
    /\ analyzeTransaction(paymentPayload.transaction, UserWallet).throws
    /\ intentResult' = [route |-> "transaction_analyze", threw |-> TRUE]
    /\ phase' = "analyzed"
    /\ UNCHANGED << chainVars, svmVars, evmVars, paymentPayload, paymentRequirements, edits,
                    verifyResponse, settleResponse, submitted, signResult >>

(* tool transaction_sign *)
TransactionSign ==
    /\ phase \in {"built", "analyzed"}
    /\ \E skipIntentCheck \in BOOLEAN :
          signResult' = signTransaction(paymentPayload.transaction, UserWallet,
                                        skipIntentCheck)
    /\ phase' = "signed"
    /\ UNCHANGED << chainVars, svmVars, evmVars, paymentPayload, paymentRequirements, edits,
                    verifyResponse, settleResponse, submitted, intentResult >>

NextIntent ==
    \/ ReceiveTransaction
    \/ PadTransaction
    \/ GarbleTransaction
    \/ TransactionAnalyze
    \/ TransactionAnalyzeThrows
    \/ TransactionSign

SpecIntent == InitIntent /\ [][NextIntent]_vars

\* the user's address is a writable signer of an instruction that is neither
\* a token transfer, nor a native transfer, nor an account creation
TouchesWalletUnexpectedly(instructions, userWallet) ==
    \E i \in 1..Len(instructions) :
        /\ ~isTokenTransferInstruction(instructions[i])
        /\ ~isSystemTransfer(instructions[i])
        /\ ~isATACreationInstruction(instructions[i])
        /\ \E k \in 1..Len(instructions[i].keys) :
              /\ instructions[i].keys[k].pubkey = userWallet
              /\ instructions[i].keys[k].isSigner
              /\ instructions[i].keys[k].isWritable

\* C10: a transaction in which the user's address is a writable signer of an
\* instruction outside token transfer, native transfer and account creation
\* is reported unsafe by the intent checker, and transaction_sign with the
\* intent check on does not sign it.
C10_UnexpectedWritableSignerRefused ==
    (/\ paymentPayload.transaction.decodable
     /\ TouchesWalletUnexpectedly(decompileInstructions(paymentPayload.transaction),
                                  UserWallet))
    => /\ (phase = "analyzed" /\ "safe" \in DOMAIN intentResult) => ~intentResult.safe
       /\ (phase = "signed" /\ ~signResult.skipIntentCheck) => ~signResult.signed

(***************************************************************************)
(* The proxy contract X402AtomicServerTo and the USDC token it calls       *)
(***************************************************************************)
ZERO_ADDRESS == "0x0000000000000000000000000000000000000000"

\* the network whose proxy contract and token are modelled
ProxyNetwork == "base-sepolia"

\* accounts of the token, as the 20 bytes of an address
Accounts == {toLowerCase(a) : a \in ChecksumAddresses}

\* what the user (and any other payer) holds before the first call
UserFunds == 2 * LargeOddAmount

FundedToken ==
    [balances |-> [a \in Accounts |->
                        IF a \in {toLowerCase(USER_ADDRESS), toLowerCase(ATTACKER_ADDRESS)}
                        THEN UserFunds ELSE 0],
     used |-> {}]

TokenReverted(token, reason) == [reverted |-> TRUE, error |-> reason, token |-> token]

\* IUSDC3009.transferWithAuthorization (EIP-3009): the window is exclusive, an
\* authorization is used once, the signer is `from`, and `from` holds the value
transferWithAuthorization(token, payAuth, clock) ==
    LET from == toLowerCase(payAuth.from)
        to == toLowerCase(payAuth.to)
        digest == TypedDataHash(Eip712Domain(ProxyNetwork), MessageOf(payAuth))
        signer == recoverAddress(digest, [v |-> payAuth.v, r |-> payAuth.r, s |-> payAuth.s])
    IN  IF ~(clock > payAuth.validAfter)
        THEN TokenReverted(token, "FiatTokenV2: authorization is not yet valid")
        ELSE IF ~(clock < payAuth.validBefore)
        THEN TokenReverted(token, "FiatTokenV2: authorization is expired")
        ELSE IF << from, payAuth.nonce >> \in token.used
        THEN TokenReverted(token, "FiatTokenV2: authorization is used or canceled")
        ELSE IF toLowerCase(signer) # from
        THEN TokenReverted(token, "FiatTokenV2: invalid signature")
        ELSE IF token.balances[from] < payAuth.value
        THEN TokenReverted(token, "ERC20: transfer amount exceeds balance")
        ELSE [reverted |-> FALSE, error |-> "",
              token |->
                [balances |->
                    [a \in Accounts |->
                        token.balances[a]
                            - (IF a = from THEN payAuth.value ELSE 0)
                            + (IF a = to THEN payAuth.value ELSE 0)],
                 used |-> token.used \cup {<< from, payAuth.nonce >>}]]

\* a reverted call leaves the state it started from
CallReverted(token, calls, reason) ==
    [reverted |-> TRUE, error |-> reason, usdc |-> token, callbacks |-> calls]

CallSucceeded(token, calls) ==
    [reverted |-> FALSE, error |-> "", usdc |-> token, callbacks |-> calls]

\* step C with the result of target.call ignored
CallbackStepUnchecked(token0, calls0, token, target, callback, callbackOk) ==
    IF target # ZERO_ADDRESS /\ callbackOk
    THEN CallSucceeded(token, Append(calls0, [target |-> target, callback |-> callback]))
    ELSE CallSucceeded(token, calls0)

\* step C: if (target != address(0)) { (ok, res) = target.call(callback);
\* if (!ok) _bubble(res) }
CallbackStep(token0, calls0, token, target, callback, callbackOk) ==
    IF target = ZERO_ADDRESS THEN CallSucceeded(token, calls0)
    ELSE IF ~callbackOk THEN CallReverted(token0, calls0, "CALLBACK_FAIL")
    ELSE CallSucceeded(token, Append(calls0, [target |-> target, callback |-> callback]))

(* X402AtomicServerTo.settleUserToServerWithFixedFeeAndCallback; nonReentrant
   keeps a call made from the callback from entering it again *)
settleUserToServerWithFixedFeeAndCallback(token, calls, userPay, feePay, target, callback, feeReceiver, bps, clock, callbackOk) ==
    IF userPay.from = ZERO_ADDRESS \/ userPay.to = ZERO_ADDRESS
    THEN CallReverted(token, calls, "BAD_A")
    ELSE IF feePay.from = ZERO_ADDRESS \/ feePay.to = ZERO_ADDRESS
    THEN CallReverted(token, calls, "BAD_B")
    ELSE IF ~(userPay.value > 0)
    THEN CallReverted(token, calls, "A_VALUE_ZERO")
    ELSE IF toLowerCase(feePay.to) # toLowerCase(feeReceiver)
    THEN CallReverted(token, calls, "B_TO_NOT_FEE_RCV")
    ELSE LET expectedFee == (userPay.value * bps) \div 10000
             A == transferWithAuthorization(token, userPay, clock)
             B == IF expectedFee > 0
                  THEN transferWithAuthorization(A.token, feePay, clock)
                  ELSE [reverted |-> FALSE, error |-> "", token |-> A.token]
         IN  IF feePay.value # expectedFee
             THEN CallReverted(token, calls, "B_VALUE_MISMATCH")
             ELSE IF A.reverted THEN CallReverted(token, calls, A.error)
             ELSE IF B.reverted THEN CallReverted(token, calls, B.error)
             ELSE CallbackStep(token, calls, B.token, target, callback, callbackOk)

\* the calls of the proxy contract a run makes at most
MaxCalls == 2

InitProxy ==
    /\ feePayerPublicKey = ""
    /\ existing = {}
    /\ phase = "idle"
    /\ paymentPayload = [none |-> TRUE]
    /\ paymentRequirements = EvmRequirements(1)
    /\ edits = 0
    /\ verifyResponse = NoResponse
    /\ settleResponse = NoResponse
    /\ submitted = <<>>
    /\ now = 1
    /\ feeBps \in FeeBpsValues
    /\ facilitatorWallet = FACILITATOR_ADDRESS
    /\ intentResult = NoResponse
    /\ signResult = NoResponse
    /\ usdc = FundedToken
    /\ callbacks = <<>>
    /\ clientResult = NoResponse
    /\ mw = NoResponse

(* X402AtomicServerTo.setFeeConfig, called by the owner *)
SetFeeConfig ==
    /\ phase = "built"
    /\ edits < MaxEdits
    /\ \E bps \in FeeBpsValues \ {feeBps} : feeBps' = bps
    /\ edits' = edits + 1
    /\ UNCHANGED << chainVars, walletVars, svmVars, now, facilitatorWallet, phase,
                    paymentPayload, paymentRequirements, verifyResponse, settleResponse,
                    submitted >>

(* the fee authorization is signed by an account other than the server *)
SubstituteFeePayer ==
    /\ phase = "built"
    /\ edits < MaxEdits
    /\ isEVMAtomicPayload(paymentPayload)
    /\ \E payer \in {USER_ADDRESS, ATTACKER_ADDRESS} :
          paymentPayload' =
            [paymentPayload EXCEPT !.feePay =
                signTransferAuthorization(payer, paymentPayload.feePay.to,
                    paymentPayload.feePay.value, paymentPayload.feePay.validAfter,
                    paymentPayload.feePay.validBefore, Nonce(3, 32),
                    paymentPayload.network)]
    /\ edits' = edits + 1
    /\ UNCHANGED << chainVars, walletVars, svmVars, evmVars, phase, paymentRequirements,
                    verifyResponse, settleResponse, submitted >>

(* a transaction calling settleUserToServerWithFixedFeeAndCallback is mined;
   arguments that do not encode as address or bytes32 never make a call *)
SettleUserToServerWithFixedFeeAndCallback ==
    /\ phase \in {"built", "settled"}
    /\ isEVMAtomicPayload(paymentPayload)
    /\ ~HashThrows(MessageOf(paymentPayload.userPay))
    /\ ~HashThrows(MessageOf(paymentPayload.feePay))
    /\ Len(submitted) < MaxCalls
    /\ \E target \in {ZERO_ADDRESS, paymentPayload.target}, callbackOk \in BOOLEAN :
          LET result == settleUserToServerWithFixedFeeAndCallback(usdc, callbacks,
                            paymentPayload.userPay, paymentPayload.feePay, target,
                            paymentPayload.callback, FEE_RECEIVER_ADDRESS, feeBps, now,
                            callbackOk)
          IN  /\ usdc' = result.usdc
              /\ callbacks' = result.callbacks
              /\ settleResponse' = [route |-> "proxy", success |-> ~result.reverted,
                                    error |-> result.error]
              /\ submitted' = Append(submitted,
                    [route |-> "proxy",
                     method |-> "settleUserToServerWithFixedFeeAndCallback",
                     userPay |-> paymentPayload.userPay, feePay |-> paymentPayload.feePay,
                     target |-> target, callback |-> paymentPayload.callback,
                     feeBps |-> feeBps, clock |-> now,
                     usdcBefore |-> usdc, callbacksBefore |-> callbacks])
    /\ phase' = "settled"
    /\ UNCHANGED << sdkVars, walletVars, svmVars, evmVars, paymentPayload, paymentRequirements, edits,
                    verifyResponse >>

NextProxy ==
    \/ CreateEvmPayment
    \/ Tick
    \/ TamperAuthorization
    \/ ResignAuthorization
    \/ SetFeeConfig
    \/ SubstituteFeePayer
    \/ SettleUserToServerWithFixedFeeAndCallback

SpecProxy == InitProxy /\ [][NextProxy]_vars

(***************************************************************************)
(* Properties of the proxy contract                                        *)
(***************************************************************************)
\* the call of the proxy contract mined last
LastCall == submitted[Len(submitted)]

\* the balances after are the balances before with `value` moved from the
\* user to the server and `fee` moved from the fee payer to the fee receiver
BothTransfersApplied(before, after, call, fee) ==
    \A a \in Accounts :
        after[a] = before[a]
            - (IF a = toLowerCase(call.userPay.from) THEN call.userPay.value ELSE 0)
            + (IF a = toLowerCase(call.userPay.to) THEN call.userPay.value ELSE 0)
            - (IF a = toLowerCase(call.feePay.from) THEN fee ELSE 0)
            + (IF a = toLowerCase(call.feePay.to) THEN fee ELSE 0)

\* C11: a call of settleUserToServerWithFixedFeeAndCallback either reverts and
\* leaves every balance, every authorization and the callback target as they
\* were, or succeeds with the user's payment moved, the fee moved, the
\* authorizations presented consumed and the callback (when a target is
\* given) executed; nothing in between is ever observable.
C11_AllOrNothing ==
    (settleResponse.route = "proxy") =>
        LET call == LastCall
            fee == ExpectedFee(call.userPay.value, call.feeBps)
        IN  IF ~settleResponse.success
            THEN /\ usdc = call.usdcBefore
                 /\ callbacks = call.callbacksBefore
            ELSE /\ BothTransfersApplied(call.usdcBefore.balances, usdc.balances, call, fee)
                 /\ << toLowerCase(call.userPay.from), call.userPay.nonce >> \in usdc.used
                 /\ fee > 0 =>
                        << toLowerCase(call.feePay.from), call.feePay.nonce >> \in usdc.used
                 /\ call.target # ZERO_ADDRESS =>
                        callbacks = Append(call.callbacksBefore,
                            [target |-> call.target, callback |-> call.callback])
                 /\ call.target = ZERO_ADDRESS => callbacks = call.callbacksBefore

\* a call whose two transfers would go through and whose callback fails
\* reverts, and neither transfer nor either authorization's use remains
C11_Witness ==
    /\ settleResponse.route = "proxy"
    /\ ~settleResponse.success
    /\ settleResponse.error = "CALLBACK_FAIL"
    /\ ExpectedFee(LastCall.userPay.value, LastCall.feeBps) > 0
    /\ ~transferWithAuthorization(LastCall.usdcBefore, LastCall.userPay,
                                  LastCall.clock).reverted
    /\ usdc = LastCall.usdcBefore
    /\ << toLowerCase(LastCall.userPay.from), LastCall.userPay.nonce >> \notin usdc.used
    /\ << toLowerCase(LastCall.feePay.from), LastCall.feePay.nonce >> \notin usdc.used

\* C12: the proxy contract lets a call succeed only when feePay.from is
\* userPay.to, feePay.to is the fee receiver, and feePay.value is
\* floor(userPay.value * feeBps / 10000).
C12_FeePolicyOnChain ==
    (settleResponse.route = "proxy" /\ settleResponse.success) =>
        /\ toLowerCase(LastCall.feePay.from) = toLowerCase(LastCall.userPay.to)
        /\ toLowerCase(LastCall.feePay.to) = toLowerCase(FEE_RECEIVER_ADDRESS)
        /\ IsFloorOfFee(LastCall.feePay.value, LastCall.userPay.value, LastCall.feeBps)

(***************************************************************************)
(* The validity window in the off-chain verifiers                          *)
(***************************************************************************)
\* the authorizations a payload carries
AuthorizationsOf(payload) ==
    IF isEvmPayload(payload) THEN {convertExactEvmPayloadToPayAuth(payload)}
    ELSE IF isEVMAtomicPayload(payload) THEN {payload.userPay, payload.feePay}
    ELSE {}

NetworkOf(payload, requirements) ==
    IF isEVMAtomicPayload(payload) THEN payload.network ELSE requirements.network

\* the checks BaseService makes before it looks at the time
PassesBaseFormatChecks(payload) ==
    /\ isEvmPayload(payload)
    /\ EvmSignatureRegex(payload.signature)
    /\ EvmAddressRegex(payload.authorization.from)
    /\ EvmAddressRegex(payload.authorization.to)
    /\ HexEncoded64ByteRegex(payload.authorization.nonce)

PriceInstructions == SelectSeq(Instructions, isSetComputeUnitPrice)
\* the price the transaction sets (its last price instruction)
TransactionPrice == getComputeUnitPrice(PriceInstructions[Len(PriceInstructions)])

TargetPrice == ExtraOr(paymentRequirements, "computeUnitPrice", DefaultComputeUnitPrice)
TargetLimit == ExtraOr(paymentRequirements, "computeUnitLimit", DefaultComputeUnitLimit)

HasATACreation == \E i \in 1..Len(Instructions) : isATACreationInstruction(Instructions[i])

VerifyAccepted == AnsweredBy("/verify") /\ verifyResponse.isValid

\* C14: on /verify, a transaction with a price instruction but no limit
\* instruction, or a limit instruction but no price instruction, is rejected;
\* an accepted transaction that has both sets the target price, and sets the
\* target limit or, beside an ATA creation, a limit of at most twice the target.
C14_ComputeBudgetPair ==
    (AnsweredBy("/verify") /\ isSvmPayload(paymentPayload)
     /\ paymentPayload.transaction.decodable) =>
        /\ (Len(PriceInstructions) > 0) # (Len(LimitInstructions) > 0) =>
                ~verifyResponse.isValid
        /\ (verifyResponse.isValid /\ Len(PriceInstructions) > 0
            /\ Len(LimitInstructions) > 0) =>
                /\ TargetPrice > 0 => TransactionPrice = TargetPrice
                /\ TargetLimit > 0 =>
                      \/ TransactionLimit = TargetLimit
                      \/ HasATACreation /\ TransactionLimit <= 2 * TargetLimit

\* accepted with twice the target limit beside an ATA creation
C14_Witness ==
    /\ VerifyAccepted
    /\ Len(PriceInstructions) > 0
    /\ Len(LimitInstructions) > 0
    /\ HasATACreation
    /\ TargetLimit > 0
    /\ TransactionLimit = 2 * TargetLimit

\* the ATA creation instructions of the transaction
ATACreations == SelectSeq(Instructions, isATACreationInstruction)

SvmAccepted ==
    /\ phase = "verified"
    /\ verifyResponse.route \in {"/verify", "/atomic/verify"}
    /\ verifyResponse.isValid

\* C15: in every transaction accepted by /verify or /atomic/verify the
\* transfer's destination exists on chain or is the account of an ATA creation
\* instruction of the transaction; and every ATA creation instruction of the
\* transaction names the requirement's recipient as owner, has the address
\* derived from (the requirement's asset, that owner), and that address is the
\* transfer's destination.
C15_DestinationExistsOrCreated ==
    SvmAccepted =>
        /\ \/ TransferDetails.destination \in existing
           \/ \E i \in 1..Len(ATACreations) :
                /\ parseATACreationInstruction(ATACreations[i]) # NoDetails
                /\ parseATACreationInstruction(ATACreations[i]).ata
                        = TransferDetails.destination
        /\ \A i \in 1..Len(ATACreations) :
              LET details == parseATACreationInstruction(ATACreations[i])
              IN  /\ details # NoDetails
                  /\ details.owner = paymentRequirements.payTo
                  /\ details.ata =
                        getAssociatedTokenAddress(paymentRequirements.asset, details.owner)
                  /\ details.ata = TransferDetails.destination

\* the token transfer instructions of the transaction
TokenTransfers == SelectSeq(Instructions, isTokenTransferInstruction)

\* C16: /verify rejects a transaction without a token transfer instruction,
\* and every transaction it accepts has exactly one token transfer instruction.
C16_ExactlyOneTransfer ==
    (AnsweredBy("/verify") /\ isSvmPayload(paymentPayload)
     /\ paymentPayload.transaction.decodable) =>
        /\ Len(TokenTransfers) = 0 => ~verifyResponse.isValid
        /\ verifyResponse.isValid => Len(TokenTransfers) = 1

(***************************************************************************)
(* Equality of a callback instruction and an instruction of the            *)
(* transaction                                                             *)
(***************************************************************************)
\* same program, same data, same accounts in the same order with the same
\* isSigner, and the same isWritable wherever the account is not a signer
SameInstruction(a, b) ==
    /\ a.programId = b.programId
    /\ a.data = b.data
    /\ Len(a.keys) = Len(b.keys)
    /\ \A i \in 1..Len(a.keys) :
          /\ a.keys[i].pubkey = b.keys[i].pubkey
          /\ a.keys[i].isSigner = b.keys[i].isSigner
          /\ ~a.keys[i].isSigner => a.keys[i].isWritable = b.keys[i].isWritable

\* a payment with a decodable transaction and a callback list to compare it with
HasCallbacksToCompare ==
    /\ phase # "idle"
    /\ isSvmPayload(paymentPayload)
    /\ paymentPayload.transaction.decodable
    /\ "callbackInstructions" \in DOMAIN paymentRequirements.extra

\* C17: instructionsEqual holds for an expected callback and an instruction of
\* the transaction exactly when they agree in program id, data, number of
\* accounts and, position by position, pubkey, isSigner and (for non-signers)
\* isWritable; a transaction accepted by /atomic/verify has such an equal for
\* every expected callback.
C17_InstructionsEqual ==
    HasCallbacksToCompare =>
        /\ \A c \in 1..Len(ExpectedCallbacks), i \in 1..Len(Instructions) :
                instructionsEqual(ExpectedCallbacks[c], Instructions[i])
                    <=> SameInstruction(ExpectedCallbacks[c], Instructions[i])
        /\ AtomicAccepted =>
                \A c \in 1..Len(ExpectedCallbacks) :
                    \E i \in 1..Len(Instructions) :
                        SameInstruction(ExpectedCallbacks[c], Instructions[i])

\* accepted although a callback's signer account is writable in the
\* transaction and read-only in the expected instruction
C17_Witness ==
    /\ HasCallbacksToCompare
    /\ AtomicAccepted
    /\ \E c \in 1..Len(ExpectedCallbacks), i \in 1..Len(Instructions) :
          /\ instructionsEqual(ExpectedCallbacks[c], Instructions[i])
          /\ ExpectedCallbacks[c] # Instructions[i]

(***************************************************************************)
(* Payments the non-atomic verifier has to accept                          *)
(***************************************************************************)
\* the account derived from the requirement's asset and recipient
CanonicalRecipientAccount ==
    getAssociatedTokenAddress(paymentRequirements.asset, paymentRequirements.payTo)

\* nothing but the compute budget pair, an account creation and the transfer
OnlyPaymentInstructions ==
    \A i \in 1..Len(Instructions) :
        \/ isSetComputeUnitPrice(Instructions[i])
        \/ isSetComputeUnitLimit(Instructions[i])
        \/ isATACreationInstruction(Instructions[i])
        \/ isTokenTransferInstruction(Instructions[i])

\* no compute budget instructions, or the pair with the target values
WellFormedComputeBudget ==
    \/ Len(PriceInstructions) = 0 /\ Len(LimitInstructions) = 0
    \/ /\ Len(PriceInstructions) = 1
       /\ Len(LimitInstructions) = 1
       /\ TransactionPrice = TargetPrice
       /\ \/ TransactionLimit = TargetLimit
          \/ HasATACreation /\ TransactionLimit <= 2 * TargetLimit

\* the destination exists, or the transaction creates it for the recipient
WellFormedDestination ==
    \/ Len(ATACreations) = 0 /\ TransferDetails.destination \in existing
    \/ /\ Len(ATACreations) = 1
       /\ parseATACreationInstruction(ATACreations[1]) # NoDetails
       /\ parseATACreationInstruction(ATACreations[1]).owner = paymentRequirements.payTo
       /\ parseATACreationInstruction(ATACreations[1]).ata = CanonicalRecipientAccount

WellFormedTransaction ==
    /\ isSvmPayload(paymentPayload)
    /\ paymentPayload.transaction.decodable
    /\ OnlyPaymentInstructions
    /\ Len(TokenTransfers) = 1
    /\ TransferDetails # NoDetails
    /\ WellFormedComputeBudget
    /\ WellFormedDestination

\* C18: /verify accepts every well-formed transaction whose transfer pays at
\* least the required amount to the account derived from the requirement's
\* asset and recipient and is the transaction's last instruction.
C18_AcceptsWellFormed ==
    (/\ AnsweredBy("/verify")
     /\ WellFormedTransaction
     /\ TransferDetails.destination = CanonicalRecipientAccount
     /\ ~U64Less(TransferDetails.amount, paymentRequirements.maxAmountRequired[1])
     /\ TransferIndex = Len(Instructions))
        => verifyResponse.isValid

(***************************************************************************)
(* The fee payer rule at settlement                                        *)
(***************************************************************************)
FeePayerRequired == "feePayer" \in DOMAIN paymentRequirements.extra

FeePayerMatches ==
    /\ FeePayerRequired
    /\ feePayerPublicKey # ""
    /\ paymentRequirements.extra.feePayer = feePayerPublicKey

\* a call of the route has answered in this step
SettledBy(route) == phase # "settled" /\ phase' = "settled" /\ settleResponse'.route = route

\* what a settlement call may do under the fee payer rule
FeePayerRuleObeyed ==
    LET didSubmit == Len(submitted') = Len(submitted) + 1
    IN  /\ ~didSubmit => submitted' = submitted
        /\ didSubmit => (submitted'[Len(submitted')].signedByFeePayer <=> FeePayerMatches)
        /\ (FeePayerRequired /\ ~FeePayerMatches) =>
                /\ ~didSubmit
                /\ ~settleResponse'.success

\* C19: a call of /settle submits a transaction countersigned with the
\* facilitator's fee payer key only when the requirements name a fee payer and
\* it is the configured one; when they name another one, or name one and none
\* is configured, the answer is success=false and nothing is submitted.
C19_FeePayerRule == [][SettledBy("/settle") => FeePayerRuleObeyed]_vars

\* a payment that verifies, refused at /settle because the fee payer asked
\* for is not the configured one
C19_Witness ==
    /\ phase = "settled"
    /\ settleResponse.route = "/settle"
    /\ verifyPayment(paymentPayload, paymentRequirements, existing).isValid
    /\ FeePayerRequired
    /\ feePayerPublicKey # ""
    /\ paymentRequirements.extra.feePayer # feePayerPublicKey
    /\ ~settleResponse.success
    /\ settleResponse.error = "Fee payer mismatch"
    /\ submitted = <<>>

\* C20: a call of /atomic/settle follows the same rule: countersigned only
\* when the requirements name the configured fee payer, and nothing submitted
\* when they name another one or none is configured.
C20_AtomicFeePayerRule == [][SettledBy("/atomic/settle") => FeePayerRuleObeyed]_vars

(***************************************************************************)
(* What the verification routes answer                                     *)
(***************************************************************************)
\* C21: every answer of /verify and /atomic/verify with isValid=false carries
\* a reason for the rejection.
C21_ReasonReachesResponse ==
    (phase = "verified" /\ ~verifyResponse.isValid) => verifyResponse.error # ""

(***************************************************************************)
(* The SDK client building an atomic payment (X402Client)                  *)
(***************************************************************************)
\* the account of the user that holds the tokens
UserTokenAccount == getAssociatedTokenAddress(USDC_MINT_DEVNET, UserWallet)

\* callback instructions a server may put into its 402 answer
ServerCallbacks ==
    { CallbackInstruction(1), CallbackInstruction(2),
      [CallbackInstruction(1) EXCEPT !.keys[1] = Key(UserWallet, TRUE, FALSE)],
      [CallbackInstruction(1) EXCEPT !.keys[2] = Key(UserTokenAccount, FALSE, TRUE)],
      [CallbackInstruction(1) EXCEPT !.programId = UserWallet] }
    \cup { [CallbackInstruction(2) EXCEPT !.keys[2] = Key(UserWallet, isSigner, isWritable)] :
                <<isSigner, isWritable>> \in BOOLEAN \X BOOLEAN }

MaxCallbacks == 2

ServerCallbackLists ==
    UNION { [1..n -> {serializeInstruction(c) : c \in ServerCallbacks}] : n \in 0..MaxCallbacks }

Thrown(message) == [thrown |-> TRUE, message |-> message, signers |-> {}]
Returned(transaction, signers) ==
    [thrown |-> FALSE, message |-> "", transaction |-> transaction, signers |-> signers]

\* the validation looking at signer accounts only
validateSolanaCallbackInstructionsSignersOnly(callbackInstructions, userWallet) ==
    IF \E i \in 1..Len(callbackInstructions) :
          \E k \in 1..Len(callbackInstructions[i].keys) :
              /\ callbackInstructions[i].keys[k].pubkey = userWallet
              /\ callbackInstructions[i].keys[k].isSigner
    THEN "Security violation: Callback instruction contains user's wallet as an account."
    ELSE ""

\* validateSolanaCallbackInstructions: the message it throws with, "" when it returns
validateSolanaCallbackInstructions(callbackInstructions, userWallet) ==
    IF \E i \in 1..Len(callbackInstructions) :
          \E k \in 1..Len(callbackInstructions[i].keys) :
              callbackInstructions[i].keys[k].pubkey = userWallet
    THEN "Security violation: Callback instruction contains user's wallet as an account."
    ELSE ""

\* createSolanaAtomicPaymentTransaction
createSolanaAtomicPaymentTransaction(requirements, needsATACreation) ==
    IF "callbackInstructions" \notin DOMAIN requirements.extra
    THEN Thrown("No callback instructions provided for atomic transaction")
    ELSE IF validateSolanaCallbackInstructions(requirements.extra.callbackInstructions,
                                               UserWallet) # ""
    THEN Thrown(validateSolanaCallbackInstructions(requirements.extra.callbackInstructions,
                                                   UserWallet))
    ELSE Returned(ClientTransaction(requirements, TRUE, needsATACreation), {UserWallet})

\* createAtomicPaymentTransaction: only the account-model networks are served
createAtomicPaymentTransaction(requirements, needsATACreation) ==
    IF requirements.network \in {"solana", "solana-devnet"}
    THEN createSolanaAtomicPaymentTransaction(requirements, needsATACreation)
    ELSE Thrown("EVM atomic transactions are not yet implemented.")

InitClient ==
    /\ feePayerPublicKey \in {"", FacilitatorFeePayer}
    /\ phase = "idle"
    /\ paymentPayload = [transaction |-> CompileMessage(UserWallet, <<>>)]
    /\ paymentRequirements = BaseRequirements(FALSE, "")
    /\ existing \in {{}, {getAssociatedTokenAddress(USDC_MINT_DEVNET, Recipient)}}
    /\ edits = 0
    /\ verifyResponse = NoResponse
    /\ settleResponse = NoResponse
    /\ submitted = <<>>
    /\ now = 0
    /\ feeBps = 0
    /\ facilitatorWallet = ""
    /\ intentResult = NoResponse
    /\ signResult = NoResponse
    /\ usdc = NoToken
    /\ callbacks = <<>>
    /\ clientResult = NoResponse
    /\ mw = NoResponse

(* the request without payment is answered 402 with the server's requirements *)
Receive402 ==
    /\ phase = "idle"
    /\ \E network \in {"solana-devnet", "base-sepolia"}, withCallbacks \in BOOLEAN,
          cbs \in ServerCallbackLists :
          paymentRequirements' =
            LET requirements ==
                    [BaseRequirements(TRUE, feePayerPublicKey) EXCEPT !.network = network]
            IN  IF withCallbacks THEN WithExtra(requirements, "callbackInstructions", cbs)
                ELSE WithoutExtra(requirements, "callbackInstructions")
    /\ phase' = "required"
    /\ UNCHANGED << chainVars, walletVars, evmVars, svmVars, paymentPayload, edits,
                    verifyResponse, settleResponse, submitted >>

(* requestWithAtomicPayment builds the payment for the requirements it received *)
CreateAtomicPaymentTransaction ==
    /\ phase = "required"
    /\ LET needsATACreation ==
                getAssociatedTokenAddress(paymentRequirements.asset,
                                          paymentRequirements.payTo) \notin existing
           result == createAtomicPaymentTransaction(paymentRequirements, needsATACreation)
       IN  /\ clientResult' = result
           /\ paymentPayload' =
                IF result.thrown THEN paymentPayload
                ELSE [transaction |-> result.transaction]
    /\ phase' = "built"
    /\ UNCHANGED << usdc, callbacks, mw, walletVars, evmVars, svmVars, paymentRequirements,
                    edits, verifyResponse, settleResponse, submitted >>

NextClient ==
    \/ Receive402
    \/ CreateAtomicPaymentTransaction

SpecClient == InitClient /\ [][NextClient]_vars

\* the callback instructions of the requirements name the user's wallet as an account
CallbacksNameUserWallet ==
    /\ "callbackInstructions" \in DOMAIN paymentRequirements.extra
    /\ \E i \in 1..Len(paymentRequirements.extra.callbackInstructions) :
          \E k \in 1..Len(paymentRequirements.extra.callbackInstructions[i].keys) :
              paymentRequirements.extra.callbackInstructions[i].keys[k].pubkey = UserWallet

\* C22: when a callback instruction of the requirements lists the user's
\* wallet among its accounts, with whatever flags, createAtomicPaymentTransaction
\* throws: no transaction is built and nothing is signed.
C22_NoPaymentWithUserWalletInCallback ==
    (phase = "built" /\ CallbacksNameUserWallet) =>
        /\ clientResult.thrown
        /\ clientResult.signers = {}
        /\ Len(decompileInstructions(paymentPayload.transaction)) = 0

\* refused although the wallet is neither signer nor writable in the callback
C22_Witness ==
    /\ phase = "built"
    /\ clientResult.thrown
    /\ clientResult.message =
            "Security violation: Callback instruction contains user's wallet as an account."
    /\ \E i \in 1..Len(paymentRequirements.extra.callbackInstructions) :
          \E k \in 1..Len(paymentRequirements.extra.callbackInstructions[i].keys) :
              paymentRequirements.extra.callbackInstructions[i].keys[k]
                    = Key(UserWallet, FALSE, FALSE)

(***************************************************************************)
(* Signing with the intent check on                                        *)
(***************************************************************************)
\* positions of the set-compute-unit-limit instructions above the maximum
OverLimitPositions ==
    {i \in 1..Len(Instructions) :
        /\ isSetComputeUnitLimit(Instructions[i])
        /\ CanRead(Instructions[i].data, 1, 4)
        /\ getComputeUnitLimit(Instructions[i]) > ConfigMaxComputeUnitLimitAtomic}

SignedWithIntentCheck ==
    /\ phase = "signed"
    /\ ~signResult.skipIntentCheck
    /\ requireIntentCheckForSigning

\* C23: transaction_sign with the intent check on throws, and does not sign,
\* when the transaction has a set-compute-unit-limit instruction above the
\* configured maximum anywhere in its instruction list.
C23_OverLimitNeverSigned ==
    (SignedWithIntentCheck /\ paymentPayload.transaction.decodable
     /\ OverLimitPositions # {}) =>
        /\ signResult.threw
        /\ ~signResult.signed

\* refused although a later limit instruction of the transaction is in range
C23_Witness ==
    /\ SignedWithIntentCheck
    /\ paymentPayload.transaction.decodable
    /\ OverLimitPositions # {}
    /\ \E i \in 1..Len(Instructions) :
          /\ isSetComputeUnitLimit(Instructions[i])
          /\ i > Max(OverLimitPositions)
    /\ signResult.threw
    /\ signResult.error = "Transaction failed safety check"

\* the set-compute-unit-limit instruction of the leading compute-budget
\* instructions, those before the first instruction of another program
\* (0 when there is none)
LeadingLimitIndex ==
    LET S == {i \in 1..(ComputeBudgetPrefixEnd(Instructions) - 1) :
                isSetComputeUnitLimit(Instructions[i])}
    IN  IF S = {} THEN 0 ELSE Min(S)

\* C26: in every transaction the atomic verifier accepts, every
\* set-compute-unit-limit instruction of the list, the callback tail included,
\* carries a value at most the ceiling, and the limit that was compared with
\* the ceiling is the one of the leading compute-budget pair.
C26_EveryLimitUnderCeiling ==
    AtomicAccepted =>
        /\ \A i \in 1..Len(Instructions) :
                isSetComputeUnitLimit(Instructions[i]) =>
                    getComputeUnitLimit(Instructions[i]) <= MaxComputeUnitLimitAtomic
        /\ LeadingLimitIndex > 0
        /\ ComputeBudgetScan(Instructions).foundUnitLimit =
                getComputeUnitLimit(Instructions[LeadingLimitIndex])

\* the require statements of settleUserToServerWithFixedFeeAndCallback that
\* come before the first transfer: the revert reason, "" when all pass
PreTransferRequires(userPay, feePay, feeReceiver, bps) ==
    IF userPay.from = ZERO_ADDRESS \/ userPay.to = ZERO_ADDRESS THEN "BAD_A"
    ELSE IF feePay.from = ZERO_ADDRESS \/ feePay.to = ZERO_ADDRESS THEN "BAD_B"
    ELSE IF ~(userPay.value > 0) THEN "A_VALUE_ZERO"
    ELSE IF toLowerCase(feePay.to) # toLowerCase(feeReceiver) THEN "B_TO_NOT_FEE_RCV"
    ELSE IF feePay.value # (userPay.value * bps) \div 10000 THEN "B_VALUE_MISMATCH"
    ELSE ""

\* C29: with the fee configuration of the contract unchanged, every payload
\* accepted by /atomic/verify (EVMService.verifyAtomicPayment) passes all the
\* require checks the contract makes before its first transfer: non-zero
\* from/to on both authorizations, userPay.value > 0, fee receiver, fee formula.
C29_VerifierAtLeastAsStrict ==
    EvmAtomicAccepted =>
        PreTransferRequires(paymentPayload.userPay, paymentPayload.feePay,
                            FEE_RECEIVER_ADDRESS, feeBps) = ""

\* the u64 of the price instruction the verifiers read (the last one)
TransactionPrice64 == readBigUInt64LE(PriceInstructions[Len(PriceInstructions)].data, 1)

\* C28: when a target price greater than 0 applies, the set-compute-unit-price
\* instruction of every transaction accepted by /verify or /atomic/verify has
\* the target as its full 64-bit little-endian value: a price that differs from
\* the target only above the low 32 bits is not accepted as the target is.
C28_FullPriceEqualsTarget ==
    (SvmAccepted /\ TargetPrice > 0 /\ Len(PriceInstructions) > 0) =>
        TransactionPrice64 = [lo |-> TargetPrice, hi |-> 0]

\* C27: the transaction settlePayment submits has the instruction list, in the
\* same order, of the transaction of the request, which verifyPayment accepted
\* in the same call: nothing is added, removed or reordered, so the signatures
\* of the payload cover the submitted message.
C27_SubmitsWhatWasVerified ==
    (phase = "settled" /\ settleResponse.route = "/settle" /\ submitted # <<>>) =>
        submitted[Len(submitted)].transaction.ixs = paymentPayload.transaction.ixs

\* the accounts of the submitted transaction n that instruction i lists as
\* signers, as positions in the instruction's account list
SignerPositions(n, i, account) ==
    LET instruction == decompileInstructions(submitted[n].transaction)[i]
    IN  {k \in 1..Len(instruction.keys) :
            instruction.keys[k].pubkey = account /\ instruction.keys[k].isSigner}

\* C25: in every transaction countersigned with the fee-payer key, the only
\* instruction that lists the fee-payer account as a signer is an
\* account-creation instruction, with the fee payer as its payer (first
\* account); no transfer, callback or other instruction lists it as a signer.
C25_FeePayerSignsOnlyAsPayer ==
    \A n \in 1..Len(submitted) :
        submitted[n].signedByFeePayer =>
            \A i \in 1..Len(submitted[n].transaction.ixs) :
                SignerPositions(n, i, feePayerPublicKey) # {} =>
                    /\ isATACreationInstruction(
                            decompileInstructions(submitted[n].transaction)[i])
                    /\ SignerPositions(n, i, feePayerPublicKey) = {1}

(***************************************************************************)
(* The SDK middleware (X402Middleware): one instance serving requests      *)
(* whose handlers interleave at every await                                *)
(***************************************************************************)
MaxRequests == 2
Requests == 1..MaxRequests

\* options.bypassOnError ?? false
bypassOnError == FALSE

\* everything the middleware does not touch
exceptMw == << feePayerPublicKey, phase, paymentPayload, paymentRequirements, existing,
               edits, verifyResponse, settleResponse, submitted, now, feeBps,
               facilitatorWallet, intentResult, signResult, usdc, callbacks, clientResult >>

NewRequest ==
    [pc |-> "new", hasPayment |-> FALSE, ensuredInFlight |-> FALSE, withExtra |-> FALSE,
     verified |-> FALSE, settled |-> FALSE, outcome |-> "none"]

InitMiddleware ==
    /\ feePayerPublicKey = FacilitatorFeePayer
    /\ phase = "idle"
    /\ paymentPayload = [transaction |-> CompileMessage(UserWallet, <<>>)]
    /\ paymentRequirements = BaseRequirements(FALSE, "")
    /\ existing = {}
    /\ edits = 0
    /\ verifyResponse = NoResponse
    /\ settleResponse = NoResponse
    /\ submitted = <<>>
    /\ now = 0
    /\ feeBps = 0
    /\ facilitatorWallet = ""
    /\ intentResult = NoResponse
    /\ signResult = NoResponse
    /\ usdc = NoToken
    /\ callbacks = <<>>
    /\ clientResult = NoResponse
    /\ \E atomic \in BOOLEAN, autoSettle \in BOOLEAN,
          network \in {"solana-devnet", "base-sepolia"} :
          mw = [atomic |-> atomic, autoSettle |-> autoSettle, network |-> network,
                extraFetched |-> FALSE, extraCache |-> FALSE, fetch |-> "none",
                builds |-> <<>>,
                reqs |-> [r \in Requests |-> NewRequest]]

\* send402Response / next(): the request is answered
Answer(request, outcome) == [request EXCEPT !.pc = "done", !.outcome = outcome]

\* the catch at the end of the handler
CaughtError(request) == Answer(request, IF bypassOnError THEN "next" ELSE "402")

\* ensureExtraFields up to its first await: if (this.extraFetched) return
ensureExtraFieldsReturnsAtOnce(extraFetched) == extraFetched

(* a request reaches the middleware; with or without an X-Payment header it
   comes to ensureExtraFields (directly or in send402Response) *)
Arrive(r) ==
    /\ mw.reqs[r].pc = "new"
    /\ \E hasPayment \in BOOLEAN :
          IF ensureExtraFieldsReturnsAtOnce(mw.extraFetched)
          THEN mw' = [mw EXCEPT !.reqs[r].pc = "ready",
                                !.reqs[r].hasPayment = hasPayment,
                                !.reqs[r].ensuredInFlight = (mw.fetch = "inflight")]
          ELSE mw' = [mw EXCEPT !.extraFetched = TRUE, !.fetch = "inflight",
                                !.reqs[r].pc = "fetching",
                                !.reqs[r].hasPayment = hasPayment]
    /\ UNCHANGED exceptMw

(* facilitatorClient.getSupported() returns or throws; whoever waits goes on *)
FetchReturns ==
    /\ mw.fetch = "inflight"
    /\ \E hasExtra \in BOOLEAN :
          mw' = [mw EXCEPT !.fetch = "done", !.extraCache = hasExtra,
                           !.reqs = [r \in Requests |->
                                IF mw.reqs[r].pc = "fetching"
                                THEN [mw.reqs[r] EXCEPT !.pc = "ready"]
                                ELSE mw.reqs[r]]]
    /\ UNCHANGED exceptMw

\* the path after buildPaymentRequirements up to the next await
AfterRequirements(request, atomic, network) ==
    IF ~request.hasPayment THEN Answer(request, "402")
    ELSE IF atomic /\ network = "base-sepolia"
    THEN [request EXCEPT !.pc = "processing"]
    ELSE [request EXCEPT !.pc = "verifying"]

(* buildPaymentRequirements, and what follows it without an await *)
BuildPaymentRequirements(r) ==
    /\ mw.reqs[r].pc = "ready"
    /\ mw' = [mw EXCEPT
                !.builds = Append(@, mw.extraCache),
                !.reqs[r] = AfterRequirements([@ EXCEPT !.withExtra = mw.extraCache],
                                              mw.atomic, mw.network)]
    /\ UNCHANGED exceptMw

(* facilitatorClient.verify / atomicVerify returns or throws *)
VerifyReturns(r) ==
    /\ mw.reqs[r].pc = "verifying"
    /\ \E answer \in {"valid", "invalid", "throws"} :
          mw' = [mw EXCEPT !.reqs[r] =
                    IF answer = "throws" THEN CaughtError(@)
                    ELSE IF answer = "invalid" THEN Answer(@, "402")
                    ELSE [@ EXCEPT !.verified = TRUE, !.pc = "processing"]]
    /\ UNCHANGED exceptMw

(* Step 2 of the atomic flow (countersign, or build feePay and the payload),
   then next() or the settlement call *)
ProcessPayment(r) ==
    /\ mw.reqs[r].pc = "processing"
    /\ \E ok \in BOOLEAN :
          mw' = [mw EXCEPT !.reqs[r] =
                    IF mw.atomic /\ (~ok \/ (mw.network = "base-sepolia" /\ ~mw.extraCache))
                    THEN Answer(@, "402")
                    ELSE IF mw.autoSettle THEN [@ EXCEPT !.pc = "settling"]
                    ELSE Answer(@, "next")]
    /\ UNCHANGED exceptMw

(* facilitatorClient.settle / atomicSettle returns or throws *)
SettleReturns(r) ==
    /\ mw.reqs[r].pc = "settling"
    /\ \E answer \in {"success", "failure", "throws"} :
          mw' = [mw EXCEPT !.reqs[r] =
                    IF answer = "throws" THEN CaughtError(@)
                    ELSE IF answer = "failure" THEN Answer(@, "402")
                    ELSE Answer([@ EXCEPT !.settled = TRUE], "next")]
    /\ UNCHANGED exceptMw

NextMiddleware ==
    \/ \E r \in Requests : Arrive(r)
    \/ FetchReturns
    \/ \E r \in Requests : BuildPaymentRequirements(r)
    \/ \E r \in Requests : VerifyReturns(r)
    \/ \E r \in Requests : ProcessPayment(r)
    \/ \E r \in Requests : SettleReturns(r)

SpecMiddleware == InitMiddleware /\ [][NextMiddleware]_vars

\* C24: the route handler runs (next() is called) only for a request whose
\* payment the facilitator has answered isValid=true, and, when autoSettle is
\* set, whose settlement it has answered success=true; this for every network
\* and for atomic and non-atomic routes.
C24_NextOnlyAfterVerification ==
    \A r \in Requests :
        mw.reqs[r].outcome = "next" =>
            /\ mw.reqs[r].verified
            /\ mw.autoSettle => mw.reqs[r].settled

\* C30: no request comes out of ensureExtraFields while the one-time fetch is
\* still in flight, and once requirements have been built with the
\* facilitator's extra fields, all requirements built later have them too.
C30_FetchCompleteBeforeRequirements ==
    /\ \A r \in Requests : ~mw.reqs[r].ensuredInFlight
    /\ \A i, j \in 1..Len(mw.builds) : (i < j /\ mw.builds[i]) => mw.builds[j]

====
